---- MODULE Spec2Model ----
(***************************************************************************)
(* dukAnI: a WhatsApp concierge bot.  The module models                    *)
(*   - the Profile Store (ProfileService): one JSON file per user id,      *)
(*   - the orchestrator (AgentService): tool selection, parameter          *)
(*     extraction, sequential tool execution, response synthesis,          *)
(*   - the messaging adapter (BotService, Baileys variant) and the HTTP    *)
(*     controller in front of it.                                          *)
(* JavaScript strings are modelled as sequences of one-character strings,  *)
(* so trim / toLowerCase / includes are computed, not assumed.             *)
(***************************************************************************)
EXTENDS Integers, Sequences, FiniteSets, TLC

VARIABLES
    files,        \* data/profiles/<userId>.json : NoFile, Corrupt or the JSON record
    clock,        \* what `new Date()` returns (non-decreasing)
    turnLog,      \* history: every turn whose addConversationEntry call completed, per user
    proc,         \* Profile Store calls in flight: per caller, its position and locals
    calls,        \* number of Profile Store calls each caller has started
    fnIn,         \* a function under test: its arguments and what the Completion Service answers
    fnOut,        \* ... and what it returned
    isReady,      \* BotService.isReady
    qrCodeData,   \* BotService.qrCodeData
    conn,         \* what the current socket last reported through connection.update
    req,          \* the inbound message being handled: position in handleIncomingMessage /
                  \* runAgentPrompt and their locals
    api,          \* the call made on the adapter from outside (controller route, broadcast)
    transport,    \* every sock.sendMessage invocation so far, in order
    started       \* inbound messages and outside calls accepted so far

storeVars == <<files, clock>>
botVars   == <<isReady, qrCodeData, conn>>
reqVars   == <<req, api, transport, started>>

vars == <<storeVars, turnLog, proc, calls, fnIn, fnOut, botVars, reqVars>>

(* What each part of the model leaves alone. *)
OutsideStore == <<turnLog, fnIn, fnOut, botVars, reqVars>>
OutsideBot   == <<turnLog, proc, calls, fnIn, fnOut>>

-----------------------------------------------------------------------------
(* Bounds of the model *)

MaxTurns == 53          \* sequential appends per user explored in SpecHist
MaxClock == 2           \* ticks of the wall clock
MaxStoreCalls == 3      \* Profile Store calls started by the concurrent callers of SpecStore
MaxRequests == 1        \* inbound messages and outside calls accepted in Spec
MaxSeeded == 7          \* turns already stored when getConversationContext is called alone
MaxEntries == 8         \* largest maxEntries getConversationContext is called with alone
MaxInits == 3           \* initializeBaileysClient calls started or scheduled in SpecConn
MaxRestarts == 1        \* restartClient calls in SpecConn

-----------------------------------------------------------------------------
(* String primitives (String.prototype.trim / toLowerCase / includes) *)

WhiteSpace == {" ", "\t", "\n"}

ToLowerCase(s) ==
    LET LowerTable ==
        ("A" :> "a") @@ ("B" :> "b") @@ ("C" :> "c") @@ ("D" :> "d") @@ ("E" :> "e") @@
        ("F" :> "f") @@ ("G" :> "g") @@ ("H" :> "h") @@ ("I" :> "i") @@ ("J" :> "j") @@
        ("K" :> "k") @@ ("L" :> "l") @@ ("M" :> "m") @@ ("N" :> "n") @@ ("O" :> "o") @@
        ("P" :> "p") @@ ("Q" :> "q") @@ ("R" :> "r") @@ ("S" :> "s") @@ ("T" :> "t") @@
        ("U" :> "u") @@ ("V" :> "v") @@ ("W" :> "w") @@ ("X" :> "x") @@ ("Y" :> "y") @@
        ("Z" :> "z")
    IN  [i \in 1..Len(s) |-> IF s[i] \in DOMAIN LowerTable THEN LowerTable[s[i]] ELSE s[i]]

RECURSIVE TrimStart(_)
TrimStart(s) ==
    IF s # <<>> /\ Head(s) \in WhiteSpace THEN TrimStart(Tail(s)) ELSE s

RECURSIVE TrimEnd(_)
TrimEnd(s) ==
    IF s # <<>> /\ s[Len(s)] \in WhiteSpace THEN TrimEnd(SubSeq(s, 1, Len(s) - 1)) ELSE s

Trim(s) == TrimEnd(TrimStart(s))

Includes(s, sub) ==
    \E i \in 0..(Len(s) - Len(sub)) : SubSeq(s, i + 1, i + Len(sub)) = sub

(* Array.prototype.slice(start): a negative start counts from the end. *)
SliceFrom(a, start) ==
    LET len  == Len(a)
        from == IF start < 0
                THEN (IF len + start < 0 THEN 0 ELSE len + start)
                ELSE (IF start > len THEN len ELSE start)
    IN  SubSeq(a, from + 1, len)

(* Array.prototype.includes on an array of strings: strict equality. *)
ArrayIncludes(a, x) == \E i \in 1..Len(a) : a[i] = x

-----------------------------------------------------------------------------
(* Profile Store *)

Users == {"254700", "254711"}

Procs == {"p1", "p2"}                \* concurrent callers of the Profile Store

HistoryLimit == 50

(* The content of a profile file, as fs.readFile + JSON.parse see it. *)
NoFile == [kind |-> "ENOENT"]             \* fs.readFile rejects with code ENOENT
Corrupt == [kind |-> "unparsable"]        \* JSON.parse rejects the content
JsonFile(data) == [kind |-> "json", data |-> data]

(* JSON.stringify turns a Date into its ISO string; getProfile turns the  *)
(* string back into a Date.                                                *)
ToISOString(t) == <<"iso", t>>
NewDateFrom(s) == s[2]

Stringify(profile) ==
    [profile EXCEPT
        !.createdAt = ToISOString(@),
        !.updatedAt = ToISOString(@),
        !.conversationHistory =
            [i \in 1..Len(@) |-> [@[i] EXCEPT !.timestamp = ToISOString(@)]]]

ParseProfile(data) ==
    [data EXCEPT
        !.createdAt = NewDateFrom(@),
        !.updatedAt = NewDateFrom(@),
        !.conversationHistory =
            [i \in 1..Len(@) |-> [@[i] EXCEPT !.timestamp = NewDateFrom(@)]]]

NewProfile(userId, now) ==
    [ userId              |-> userId,
      preferences         |-> <<>>,
      favorites           |-> <<>>,
      conversationHistory |-> <<>>,
      createdAt           |-> now,
      updatedAt           |-> now ]

(* saveProfile: refresh updatedAt and overwrite the whole file. *)
SavedProfile(profile, now) == [profile EXCEPT !.updatedAt = now]

SaveProfile(f, profile, now) ==
    [f EXCEPT ![profile.userId] = JsonFile(Stringify(SavedProfile(profile, now)))]

GetProfileAlwaysCreates(f, userId, now) ==
    [ok |-> TRUE,
     profile |-> SavedProfile(NewProfile(userId, now), now),
     files |-> SaveProfile(f, NewProfile(userId, now), now)]

(* getProfile on a file system f: the profile returned and the files      *)
(* afterwards (createProfile saves the default record of an unseen id);   *)
(* ok = FALSE when it throws 'Failed to read user profile'.               *)
GetProfile(f, userId, now) ==
    IF f[userId].kind = "ENOENT"
    THEN [ok |-> TRUE,
          profile |-> SavedProfile(NewProfile(userId, now), now),
          files |-> SaveProfile(f, NewProfile(userId, now), now)]
    ELSE IF f[userId].kind = "unparsable"
    THEN [ok |-> FALSE, profile |-> Corrupt, files |-> f]
    ELSE [ok |-> TRUE, profile |-> ParseProfile(f[userId].data), files |-> f]

(* The trimming step of addConversationEntry. *)
TrimHistoryKeepOldest(history) ==
    IF Len(history) > HistoryLimit THEN SubSeq(history, 1, HistoryLimit) ELSE history

TrimHistory(history) ==
    IF Len(history) > HistoryLimit THEN SliceFrom(history, -HistoryLimit) ELSE history

PushEntryEcho(profile, userMessage, botResponse, now) ==
    [profile EXCEPT !.conversationHistory =
        TrimHistory(Append(@, [timestamp   |-> now,
                               userMessage |-> userMessage,
                               botResponse |-> userMessage]))]

PushEntry(profile, userMessage, botResponse, now) ==
    [profile EXCEPT !.conversationHistory =
        TrimHistory(Append(@, [timestamp   |-> now,
                               userMessage |-> userMessage,
                               botResponse |-> botResponse]))]

(* addConversationEntry run to completion with no other store call in     *)
(* between: the files afterwards; ok = FALSE when getProfile throws.      *)
AddConversationEntry(f, userId, userMessage, botResponse, now) ==
    LET got == GetProfile(f, userId, now)
    IN  IF got.ok
        THEN [ok |-> TRUE,
              files |-> SaveProfile(got.files,
                                    PushEntry(got.profile, userMessage, botResponse, now),
                                    now)]
        ELSE [ok |-> FALSE, files |-> f]

StoredHistory(u) ==
    IF files[u].kind = "json" THEN ParseProfile(files[u].data).conversationHistory ELSE <<>>

Tick ==
    /\ clock < MaxClock
    /\ clock' = clock + 1
    /\ UNCHANGED <<files, turnLog, proc, calls, fnIn, fnOut, botVars, reqVars>>

-----------------------------------------------------------------------------
(* SpecHist: long runs of sequentially completed addConversationEntry     *)
(* calls.  The n-th turn of a user carries the text of its ordinal, so     *)
(* that every turn is distinguishable from every other.  The wall clock   *)
(* stands still here: the timestamps play no part in the trimming.        *)

TurnText(prefix, n) ==
    LET Digit(d) == CASE d = 0 -> "0" [] d = 1 -> "1" [] d = 2 -> "2" [] d = 3 -> "3"
                      [] d = 4 -> "4" [] d = 5 -> "5" [] d = 6 -> "6" [] d = 7 -> "7"
                      [] d = 8 -> "8" [] d = 9 -> "9"
    IN  <<prefix, Digit(n \div 10), Digit(n % 10)>>

InitStore ==
    /\ files = [u \in Users |-> NoFile]
    /\ clock = 0

NoFn ==
    /\ fnIn = [fn |-> "none"]
    /\ fnOut = [fn |-> "none"]

NoJid == [user |-> "", server |-> ""]

NoResponse == [message |-> <<>>, toolsUsed |-> <<>>, confidence |-> 0]

(* No inbound message being handled: the locals of handleIncomingMessage  *)
(* and runAgentPrompt, and what the run has done so far.                  *)
IdleReq ==
    [ pc                  |-> "idle",
      event               |-> [type |-> "none"],   \* the message of the messages.upsert event
      jid                 |-> NoJid,
      userId              |-> "",
      userMessage         |-> <<>>,
      conversationHistory |-> <<>>,
      requiredTools       |-> <<>>,
      toolIdx             |-> 1,
      params              |-> [t |-> "undefined"],   \* executeToolsInSequence: params of the last search
      toolResults         |-> <<>>,
      finalResponse       |-> NoResponse,
      agent               |-> "none",       \* runAgentPrompt: none / running / returned / threw
      response            |-> NoResponse,   \* what runAgentPrompt returned
      groqLog             |-> <<>>,         \* Completion Service calls made, by purpose
      tavilyLog           |-> <<>>,         \* Search Service requests made, by outcome
      execLog             |-> <<>>,         \* tool.execute calls made, by tool name
      searchLog           |-> <<>>,         \* search tool runs: was the catch block's
                                            \* extractor used, its category, was fetch called
      synthesis           |-> "none",       \* the synthesis call: none / ok / failed
      failed              |-> {},           \* remote calls that failed: select, extract, search,
                                            \* synth (of a tool run twice, those of its last run)
      ioFailed            |-> FALSE,        \* a Profile Store call of the run rejected
      histBefore          |-> <<>>,         \* the stored history when the message arrived
      fileBefore          |-> NoFile,       \* the profile file when the message arrived
      profileLog          |-> <<>>,         \* what getProfile returned, call by call, before
                                            \* addConversationEntry
      sends               |-> 0,            \* sock.sendMessage invocations of the handler
      delivered           |-> <<>>,         \* of those, the ones whose promise resolved
      replyReady          |-> "none",       \* isReady when the reply send was attempted
      apologyReady        |-> "none" ]      \* isReady when the apology send was attempted

(* After construction: no Profile Store call under way, BotService not    *)
(* ready, without a QR code, its first socket being set up, and nothing   *)
(* received or sent.                                                      *)
ConstructedWith(connection) ==
    /\ turnLog = [u \in Users |-> <<>>]
    /\ proc = [p \in Procs |-> [pc |-> "idle"]]
    /\ calls = [p \in Procs |-> 0]
    /\ isReady = FALSE
    /\ qrCodeData = "null"
    /\ conn = connection
    /\ req = IdleReq
    /\ api = [ pc |-> "idle", op |-> "none", to |-> <<>>, readyAtCall |-> FALSE,
              invoked |-> 0, outcome |-> "none", error |-> <<>> ]
    /\ transport = <<>>
    /\ started = 0

Constructed == ConstructedWith("connecting")

InitHist ==
    /\ InitStore
    /\ Constructed
    /\ NoFn

AppendTurn(u) ==
    LET n   == Len(turnLog[u]) + 1
        um  == TurnText("u", n)
        br  == TurnText("b", n)
        res == AddConversationEntry(files, u, um, br, clock)
    IN  /\ n <= MaxTurns
        /\ res.ok
        /\ files' = res.files
        /\ turnLog' = [turnLog EXCEPT ![u] = Append(@, [userMessage |-> um, botResponse |-> br])]
        /\ UNCHANGED <<clock, proc, calls, fnIn, fnOut, botVars, reqVars>>

SpecHist == InitHist /\ [][\E u \in Users : AppendTurn(u)]_vars

Texts(history) ==
    [i \in 1..Len(history) |->
        [userMessage |-> history[i].userMessage, botResponse |-> history[i].botResponse]]

\* C1: after N >= 51 sequentially completed appends for a user, the stored
\* history has exactly 50 entries: the 50 most recent turns, in their order.
C1_Last50InOrder ==
    \A u \in Users :
        Len(turnLog[u]) >= HistoryLimit + 1 =>
            /\ Len(StoredHistory(u)) = HistoryLimit
            /\ Texts(StoredHistory(u)) =
                   SubSeq(turnLog[u], Len(turnLog[u]) - HistoryLimit + 1, Len(turnLog[u]))

C1_Witness ==
    \E u \in Users : Len(turnLog[u]) >= HistoryLimit + 2 /\ Len(StoredHistory(u)) = HistoryLimit

-----------------------------------------------------------------------------
(* SpecStore: Profile Store calls of concurrent callers.  A call is a     *)
(* read-modify-write with no lock: fs.readFile, then (for an unseen id)   *)
(* the write of the default record, then the write of the modified        *)
(* record.  fs.writeFile opens the file with O_TRUNC and then writes the  *)
(* bytes at offset 0, so a reader between the two sees an empty file and  *)
(* overlapping writers can leave one record overlaid on another.  The     *)
(* wall clock stands still here: favorites do not depend on it.           *)

EmptyFile == [kind |-> "unparsable", empty |-> TRUE]   \* just truncated by an open

(* The body of addFavorite between getProfile and saveProfile. *)
PushFavoriteAlways(profile, type, item) ==
    LET favs == IF type \in DOMAIN profile.favorites
                THEN profile.favorites
                ELSE (type :> <<>>) @@ profile.favorites
    IN  [profile EXCEPT !.favorites = [favs EXCEPT ![type] = Append(@, item)]]

PushFavorite(profile, type, item) ==
    LET favs == IF type \in DOMAIN profile.favorites
                THEN profile.favorites
                ELSE (type :> <<>>) @@ profile.favorites
    IN  [profile EXCEPT !.favorites =
            IF ArrayIncludes(favs[type], item)
            THEN favs
            ELSE [favs EXCEPT ![type] = Append(@, item)]]

StoreOps ==
    [name : {"addFavorite"}, userId : Users, type : {"restaurants", "hotels"},
     item : { <<"C", "a", "r", "n", "i", "v", "o", "r", "e">>,
              <<"c", "a", "r", "n", "i", "v", "o", "r", "e">> }]

(* updateProfile: {...profile, ...updates, userId, updatedAt: new Date()} *)
MergeUpdatesSpreadLast(userId, profile, updates, now) ==
    [(updates @@ profile) EXCEPT !.updatedAt = now]

MergeUpdates(userId, profile, updates, now) ==
    [(updates @@ profile) EXCEPT !.userId = userId, !.updatedAt = now]

(* updatePreferences: {...profile.preferences, ...preferences} *)
MergePreferences(profile, preferences) ==
    [profile EXCEPT !.preferences = preferences @@ @]

(* What a mutating call does to the profile getProfile returned, before   *)
(* it calls saveProfile.                                                  *)
Modify(op, profile, now) ==
    CASE op.name = "addFavorite" -> PushFavorite(profile, op.type, op.item)
      [] op.name = "addConversationEntry" ->
             PushEntry(profile, op.userMessage, op.botResponse, now)
      [] op.name = "updatePreferences" -> MergePreferences(profile, op.preferences)
      [] op.name = "updateProfile" -> MergeUpdates(op.userId, profile, op.updates, now)

(* fs.writeFile, first half: open with flag 'w' truncates the file. *)
OpenForWrite(f, userId) == [f EXCEPT ![userId] = EmptyFile]

(* fs.writeFile, second half: the bytes land at offset 0.  On an empty    *)
(* file the content is the record; on bytes another writer put there     *)
(* since the open, it is the record or, when that content was longer,    *)
(* the record followed by the other content's tail.                      *)
WriteOutcomes(f, profile) ==
    LET mine == JsonFile(Stringify(profile))
        cur  == f[profile.userId]
    IN  IF cur.kind = "unparsable" /\ cur.empty THEN {mine}
        ELSE IF cur = mine THEN {mine}
        ELSE {mine, [kind |-> "unparsable", empty |-> FALSE]}

StartCall(p, op) ==
    /\ proc[p].pc = "idle"
    /\ calls["p1"] + calls["p2"] < MaxStoreCalls
    /\ proc' = [proc EXCEPT ![p] = [pc |-> "read", op |-> op]]
    /\ calls' = [calls EXCEPT ![p] = @ + 1]
    /\ UNCHANGED <<files, clock, OutsideStore>>

(* getProfile's fs.readFile completes; the continuation runs up to the    *)
(* next fs.writeFile: createProfile's saveProfile for an unseen id, else  *)
(* the caller's modification and its saveProfile.                         *)
ReadFile(p) ==
    LET op  == proc[p].op
        cur == files[op.userId]
    IN  /\ proc[p].pc = "read"
        /\ proc' = [proc EXCEPT ![p] =
              CASE cur.kind = "ENOENT" ->
                     [pc |-> "createOpen", op |-> op,
                      buf |-> SavedProfile(NewProfile(op.userId, clock), clock)]
                [] cur.kind = "unparsable" ->
                     [pc |-> "idle", op |-> op, threw |-> TRUE]
                [] cur.kind = "json" ->
                     [pc |-> "saveOpen", op |-> op,
                      seen |-> ParseProfile(cur.data),
                      buf |-> SavedProfile(Modify(op, ParseProfile(cur.data), clock), clock)]]
        /\ UNCHANGED <<files, clock, calls, OutsideStore>>

CreateOpen(p) ==
    /\ proc[p].pc = "createOpen"
    /\ files' = OpenForWrite(files, proc[p].op.userId)
    /\ proc' = [proc EXCEPT ![p].pc = "createWrite"]
    /\ UNCHANGED <<clock, calls, OutsideStore>>

(* createProfile's write completes and getProfile returns newProfile: the *)
(* caller modifies it and calls saveProfile.                              *)
CreateWrite(p) ==
    LET op == proc[p].op
    IN  /\ proc[p].pc = "createWrite"
        /\ \E out \in WriteOutcomes(files, proc[p].buf) :
               files' = [files EXCEPT ![op.userId] = out]
        /\ proc' = [proc EXCEPT ![p] =
               [pc |-> "saveOpen", op |-> op,
                seen |-> proc[p].buf,
                buf |-> SavedProfile(Modify(op, proc[p].buf, clock), clock)]]
        /\ UNCHANGED <<clock, calls, OutsideStore>>

SaveOpen(p) ==
    /\ proc[p].pc = "saveOpen"
    /\ files' = OpenForWrite(files, proc[p].buf.userId)
    /\ proc' = [proc EXCEPT ![p].pc = "saveWrite"]
    /\ UNCHANGED <<clock, calls, OutsideStore>>

SaveWrite(p) ==
    LET op == proc[p].op
    IN  /\ proc[p].pc = "saveWrite"
        /\ \E out \in WriteOutcomes(files, proc[p].buf) :
               files' = [files EXCEPT ![proc[p].buf.userId] = out]
        /\ proc' = [proc EXCEPT ![p] =
               [pc |-> "idle", op |-> op, seen |-> proc[p].seen,
                wrote |-> proc[p].buf, threw |-> FALSE]]
        /\ UNCHANGED <<clock, calls, OutsideStore>>

SpecStore ==
    /\ InitHist
    /\ [][ \/ \E p \in Procs, op \in StoreOps : StartCall(p, op)
           \/ \E p \in Procs : ReadFile(p)
           \/ \E p \in Procs : CreateOpen(p)
           \/ \E p \in Procs : CreateWrite(p)
           \/ \E p \in Procs : SaveOpen(p)
           \/ \E p \in Procs : SaveWrite(p) ]_vars

NoDuplicates(list) ==
    \A i, j \in 1..Len(list) : i # j => list[i] # list[j]

FavoritesOf(profile, type) ==
    IF type \in DOMAIN profile.favorites THEN profile.favorites[type] ELSE <<>>

StoredFavorites(u, type) ==
    IF files[u].kind = "json" THEN FavoritesOf(ParseProfile(files[u].data), type) ELSE <<>>

\* C7: whatever addFavorite calls have run, one after the other or
\* interleaved, every stored favorites list holds each string at most once,
\* and a call whose string is already in the list it read writes that list
\* back unchanged (strings compared exactly, case included).
C7_FavoritesNoDuplicates ==
    /\ \A u \in Users, t \in {"restaurants", "hotels"} : NoDuplicates(StoredFavorites(u, t))
    /\ \A p \in Procs :
          (proc[p].pc \in {"saveOpen", "saveWrite"} /\ proc[p].op.name = "addFavorite") =>
              LET before == FavoritesOf(proc[p].seen, proc[p].op.type)
                  after  == FavoritesOf(proc[p].buf, proc[p].op.type)
              IN  /\ NoDuplicates(after)
                  /\ ArrayIncludes(before, proc[p].op.item) => after = before
                  /\ ~ArrayIncludes(before, proc[p].op.item) =>
                         after = Append(before, proc[p].op.item)

\* Two callers have each completed an addFavorite of the same string to the
\* same list of the same user: the first found the list without the string,
\* the second found it there, and the list is stored with one occurrence.
C7_Witness ==
    /\ \A p \in Procs : proc[p].pc = "idle" /\ "wrote" \in DOMAIN proc[p]
    /\ proc["p1"].op = proc["p2"].op
    /\ ~ArrayIncludes(FavoritesOf(proc["p1"].seen, proc["p1"].op.type), proc["p1"].op.item)
    /\ ArrayIncludes(FavoritesOf(proc["p2"].seen, proc["p2"].op.type), proc["p2"].op.item)
    /\ StoredFavorites(proc["p1"].op.userId, proc["p1"].op.type) = <<proc["p1"].op.item>>

-----------------------------------------------------------------------------
(* Completion Service text and JSON.parse.  A completion is a sequence of *)
(* lexical tokens: JSON punctuation, white space, string literals (their  *)
(* content a character sequence), numbers, the literals null/true/false,  *)
(* and words of prose.  JSON.parse is a recursive-descent parser over     *)
(* them; String.trim / indexOf / lastIndexOf / substring work on the same *)
(* sequence (a brace inside a string literal or a word is not modelled).  *)

(* A token: "punct", "ws", "str", "num", "lit" or "word", and its text *)
Tok(t, v) == [t |-> t, v |-> v]

IsP(tok, c) == tok.t = "punct" /\ tok.v = c

(* JavaScript values *)
Undefined    == [t |-> "undefined"]
JNull        == [t |-> "null"]
(* A value by its type: "boolean", "number", "string" (a character       *)
(* sequence), "array" (the items) or "object" (<<key, value>> pairs in    *)
(* source order).                                                         *)
JS(t, v)     == [t |-> t, v |-> v]

RECURSIVE SkipWs(_)
SkipWs(toks) ==
    IF toks # <<>> /\ Head(toks).t = "ws" THEN SkipWs(Tail(toks)) ELSE toks

RECURSIVE TrimTextEnd(_)
TrimTextEnd(toks) ==
    IF toks # <<>> /\ toks[Len(toks)].t = "ws"
    THEN TrimTextEnd(SubSeq(toks, 1, Len(toks) - 1))
    ELSE toks

TrimText(toks) == TrimTextEnd(SkipWs(toks))

ParseFail == [ok |-> FALSE]
ParseOk(value, rest) == [ok |-> TRUE, value |-> value, rest |-> rest]

RECURSIVE ParseValue(_)
RECURSIVE ParseElements(_, _)
RECURSIVE ParseMembers(_, _)

ParseValue(toks0) ==
    LET toks == SkipWs(toks0)
    IN  IF toks = <<>> THEN ParseFail
        ELSE LET h == Head(toks)
                 r == SkipWs(Tail(toks))
             IN  CASE h.t = "str" -> ParseOk(JS("string", h.v), Tail(toks))
                   [] h.t = "num" -> ParseOk(JS("number", h.v), Tail(toks))
                   [] h.t = "lit" ->
                        ParseOk(IF h.v = "null" THEN JNull ELSE JS("boolean", h.v = "true"), Tail(toks))
                   [] IsP(h, "[") ->
                        IF r # <<>> /\ IsP(Head(r), "]")
                        THEN ParseOk(JS("array", <<>>), Tail(r))
                        ELSE ParseElements(Tail(toks), <<>>)
                   [] IsP(h, "{") ->
                        IF r # <<>> /\ IsP(Head(r), "}")
                        THEN ParseOk(JS("object", <<>>), Tail(r))
                        ELSE ParseMembers(Tail(toks), <<>>)
                   [] OTHER -> ParseFail

ParseElements(toks, acc) ==
    LET e == ParseValue(toks)
    IN  IF ~e.ok THEN ParseFail
        ELSE LET r == SkipWs(e.rest)
             IN  IF r = <<>> THEN ParseFail
                 ELSE IF IsP(Head(r), ",") THEN ParseElements(Tail(r), Append(acc, e.value))
                 ELSE IF IsP(Head(r), "]") THEN ParseOk(JS("array", Append(acc, e.value)), Tail(r))
                 ELSE ParseFail

ParseMembers(toks0, acc) ==
    LET toks == SkipWs(toks0)
    IN  IF toks = <<>> \/ Head(toks).t # "str" THEN ParseFail
        ELSE LET c == SkipWs(Tail(toks))
             IN  IF c = <<>> \/ ~IsP(Head(c), ":") THEN ParseFail
                 ELSE LET m == ParseValue(Tail(c))
                      IN  IF ~m.ok THEN ParseFail
                          ELSE LET r    == SkipWs(m.rest)
                                   acc2 == Append(acc, <<Head(toks).v, m.value>>)
                               IN  IF r = <<>> THEN ParseFail
                                   ELSE IF IsP(Head(r), ",") THEN ParseMembers(Tail(r), acc2)
                                   ELSE IF IsP(Head(r), "}")
                                        THEN ParseOk(JS("object", acc2), Tail(r))
                                   ELSE ParseFail

(* JSON.parse(text): ok = FALSE when it throws a SyntaxError. *)
JSONParse(text) ==
    LET r == ParseValue(text)
    IN  IF r.ok /\ SkipWs(r.rest) = <<>>
        THEN [ok |-> TRUE, value |-> r.value]
        ELSE [ok |-> FALSE]

(* value.key for a parsed value: undefined unless an object has the key   *)
(* (the last occurrence of a repeated key wins).                          *)
RECURSIVE Lookup(_, _)
Lookup(kvs, key) ==
    IF kvs = <<>> THEN Undefined
    ELSE IF kvs[Len(kvs)][1] = key THEN kvs[Len(kvs)][2]
    ELSE Lookup(SubSeq(kvs, 1, Len(kvs) - 1), key)

Get(value, key) == IF value.t = "object" THEN Lookup(value.v, key) ELSE Undefined

(* String.prototype.indexOf / lastIndexOf of a punctuation character:     *)
(* 0-based, -1 when absent.                                               *)
IndexOf(toks, c) ==
    IF \E i \in 1..Len(toks) : IsP(toks[i], c)
    THEN (CHOOSE i \in 1..Len(toks) :
              IsP(toks[i], c) /\ \A j \in 1..(i - 1) : ~IsP(toks[j], c)) - 1
    ELSE -1

LastIndexOf(toks, c) ==
    IF \E i \in 1..Len(toks) : IsP(toks[i], c)
    THEN (CHOOSE i \in 1..Len(toks) :
              IsP(toks[i], c) /\ \A j \in (i + 1)..Len(toks) : ~IsP(toks[j], c)) - 1
    ELSE -1

(* String.prototype.substring(start, end), 0 <= start <= end <= length *)
Substring(toks, start, end) == SubSeq(toks, start + 1, end)

(* GroqService.generateSystemPromptCompletion: it throws 'Groq API error' *)
(* or returns the content, '' when the API gave none.                     *)
GroqThrows == [ok |-> FALSE, content |-> <<>>]
GroqReturns(text) == [ok |-> TRUE, content |-> text]

-----------------------------------------------------------------------------
(* String constants of the source, and the inbound messages explored *)

(* The keywords of the heuristic, the category names, the parameter    *)
(* keys and the tool names, as the source spells them.                  *)

Kw ==
    [
      hotel      |-> <<"h", "o", "t", "e", "l">>,
      stay       |-> <<"s", "t", "a", "y">>,
      flight     |-> <<"f", "l", "i", "g", "h", "t">>,
      fly        |-> <<"f", "l", "y">>,
      restaurant |-> <<"r", "e", "s", "t", "a", "u", "r", "a", "n", "t">>,
      food       |-> <<"f", "o", "o", "d">>,
      pizza      |-> <<"p", "i", "z", "z", "a">>,
      eat        |-> <<"e", "a", "t">>,
      buy        |-> <<"b", "u", "y">>,
      shop       |-> <<"s", "h", "o", "p">>,
      product    |-> <<"p", "r", "o", "d", "u", "c", "t">> ]

Cat ==
    [
      hotels        |-> <<"h", "o", "t", "e", "l", "s">>,
      flights       |-> <<"f", "l", "i", "g", "h", "t", "s">>,
      restaurants   |-> <<"r", "e", "s", "t", "a", "u", "r", "a", "n", "t", "s">>,
      products      |-> <<"p", "r", "o", "d", "u", "c", "t", "s">>,
      general       |-> <<"g", "e", "n", "e", "r", "a", "l">>,
      generalSearch |-> <<"g", "e", "n", "e", "r", "a", "l", " ", "s", "e", "a", "r", "c", "h">> ]

Key ==
    [
      query       |-> <<"q", "u", "e", "r", "y">>,
      category    |-> <<"c", "a", "t", "e", "g", "o", "r", "y">>,
      location    |-> <<"l", "o", "c", "a", "t", "i", "o", "n">>,
      origin      |-> <<"o", "r", "i", "g", "i", "n">>,
      destination |-> <<"d", "e", "s", "t", "i", "n", "a", "t", "i", "o", "n">>,
      date        |-> <<"d", "a", "t", "e">>,
      budget      |-> <<"b", "u", "d", "g", "e", "t">>,
      cuisine     |-> <<"c", "u", "i", "s", "i", "n", "e">> ]

Tool ==
    [
      search  |-> <<"s", "e", "a", "r", "c", "h">>,
      profile |-> <<"p", "r", "o", "f", "i", "l", "e">> ]

(* Inbound message texts explored *)

Msg ==
    [
      food      |-> <<"I", " ", "w", "a", "n", "t", " ", "I", "t", "a", "l", "i", "a", "n", " ", "f", "o", "o", "d", " ", "i", "n", " ", "N", "a", "i", "r", "o", "b", "i">>,
      hotel     |-> <<"F", "i", "n", "d", " ", "m", "e", " ", "a", " ", "h", "o", "t", "e", "l", " ", "i", "n", " ", "M", "o", "m", "b", "a", "s", "a">>,
      padded    |-> <<" ", " ", "C", "h", "e", "a", "p", " ", "F", "L", "I", "G", "H", "T", " ", "d", "e", "a", "l", "s", "\n">>,
      butterfly |-> <<"B", "u", "t", "t", "e", "r", "f", "l", "y", " ", "p", "i", "z", "z", "a">>,
      eatStay   |-> <<"e", "a", "t", " ", "t", "h", "e", "n", " ", "s", "t", "a", "y">>,
      buyFood   |-> <<"b", "u", "y", " ", "f", "o", "o", "d">>,
      shop      |-> <<"S", "H", "O", "P", " ", "f", "o", "r", " ", "a", " ", "P", "r", "o", "d", "u", "c", "t">>,
      hi        |-> <<"h", "i">>,
      empty     |-> <<>>,
      blank     |-> <<" ", "\t", " ">> ]

(* Other texts: values a completion may carry, replies, the trimmed form *)
(* of Msg.padded.                                                        *)

Txt ==
    [
      weather         |-> <<"w", "e", "a", "t", "h", "e", "r">>,
      tools           |-> <<"t", "o", "o", "l", "s">>,
      Mombasa         |-> <<"M", "o", "m", "b", "a", "s", "a">>,
      Nairobi         |-> <<"N", "a", "i", "r", "o", "b", "i">>,
      hotelsInMombasa |-> <<"h", "o", "t", "e", "l", "s", " ", "i", "n", " ", "M", "o", "m", "b", "a", "s", "a">>,
      pizzaPlaces     |-> <<"p", "i", "z", "z", "a", " ", "p", "l", "a", "c", "e", "s">>,
      phone           |-> <<"p", "h", "o", "n", "e">>,
      spaces          |-> <<" ", " ">>,
      paddedTrimmed   |-> <<"C", "h", "e", "a", "p", " ", "F", "L", "I", "G", "H", "T", " ", "d", "e", "a", "l", "s">>,
      Carnivore       |-> <<"C", "a", "r", "n", "i", "v", "o", "r", "e">>,
      carnivore       |-> <<"c", "a", "r", "n", "i", "v", "o", "r", "e">> ]

-----------------------------------------------------------------------------
(* Tool selection (AgentService.determineRequiredTools) *)

DefaultToolsSearchFirst == <<JS("string", Tool.search), JS("string", Tool.profile)>>

DefaultTools == <<JS("string", Tool.profile), JS("string", Tool.search)>>

DetermineRequiredToolsNoDefault(userMessage, completion) ==
    LET parsed == JSONParse(TrimText(completion.content))
    IN  [ tools |-> IF completion.ok /\ parsed.ok /\ parsed.value.t = "array"
                    THEN parsed.value.v
                    ELSE <<>>,
          groqCalls |-> 1 ]

DetermineRequiredToolsDefaultForAll(userMessage, completion) ==
    LET parsed == JSONParse(TrimText(completion.content))
    IN  [ tools |-> IF completion.ok /\ parsed.ok /\ parsed.value.t = "array"
                    THEN parsed.value.v
                    ELSE DefaultTools,
          groqCalls |-> 1 ]

(* One completion call; its failure and a SyntaxError of JSON.parse both  *)
(* land in the catch block; a parsed value that is no array gives [].     *)
DetermineRequiredTools(userMessage, completion) ==
    LET parsed == JSONParse(TrimText(completion.content))
    IN  [ tools |-> IF ~completion.ok THEN DefaultTools
                    ELSE IF ~parsed.ok THEN DefaultTools
                    ELSE IF parsed.value.t = "array" THEN parsed.value.v
                    ELSE <<>>,
          groqCalls |-> 1 ]

(* Completion texts for the selection prompt *)
SelText ==
    [ both      |-> <<Tok("punct", "["), Tok("str", Tool.profile), Tok("punct", ","), Tok("ws", " "), Tok("str", Tool.search), Tok("punct", "]")>>,
      search    |-> <<Tok("punct", "["), Tok("str", Tool.search), Tok("punct", "]")>>,
      profile   |-> <<Tok("punct", "["), Tok("str", Tool.profile), Tok("punct", "]")>>,
      none      |-> <<Tok("punct", "["), Tok("punct", "]")>>,
      unknown   |-> <<Tok("punct", "["), Tok("str", Txt.weather), Tok("punct", ","), Tok("str", Tool.search), Tok("punct", "]")>>,
      reversed  |-> <<Tok("ws", " "), Tok("punct", "["), Tok("str", Tool.search), Tok("punct", ","), Tok("str", Tool.profile), Tok("punct", "]"), Tok("ws", " ")>>,
      mixed     |-> <<Tok("punct", "["), Tok("num", 1), Tok("punct", ","), Tok("lit", "null"), Tok("punct", ","), Tok("str", Tool.profile), Tok("punct", "]")>>,
      twice     |-> <<Tok("punct", "["), Tok("str", Tool.search), Tok("punct", ","), Tok("str", Tool.search), Tok("punct", "]")>>,
      prose     |-> <<Tok("word", "Sure"), Tok("ws", " "), Tok("punct", "["), Tok("str", Tool.profile), Tok("punct", "]")>>,
      trailing  |-> <<Tok("punct", "["), Tok("str", Tool.profile), Tok("punct", "]"), Tok("ws", " "), Tok("word", "done")>>,
      truncated |-> <<Tok("punct", "["), Tok("str", Tool.profile), Tok("punct", ",")>>,
      comma     |-> <<Tok("punct", "["), Tok("str", Tool.profile), Tok("punct", ","), Tok("punct", "]")>>,
      empty     |-> <<>>,
      blank     |-> <<Tok("ws", " "), Tok("ws", " ")>>,
      words     |-> <<Tok("word", "profile"), Tok("ws", " "), Tok("word", "search")>>,
      object    |-> <<Tok("punct", "{"), Tok("str", Txt.tools), Tok("punct", ":"), Tok("punct", "["), Tok("str", Tool.search), Tok("punct", "]"), Tok("punct", "}")>>,
      emptyObj  |-> <<Tok("punct", "{"), Tok("punct", "}")>>,
      string    |-> <<Tok("str", Tool.search)>>,
      number    |-> <<Tok("num", 42)>>,
      null      |-> <<Tok("lit", "null")>>,
      true      |-> <<Tok("ws", " "), Tok("lit", "true")>> ]

(* The same texts by what JSON.parse is to make of them, written out. *)
SelKind ==
    [ array    |-> { SelText.both, SelText.search, SelText.profile, SelText.none,
                     SelText.unknown, SelText.reversed, SelText.mixed, SelText.twice },
      notJson  |-> { SelText.prose, SelText.trailing, SelText.truncated, SelText.comma,
                     SelText.empty, SelText.blank, SelText.words },
      nonArray |-> { SelText.object, SelText.emptyObj, SelText.string, SelText.number,
                     SelText.null, SelText.true } ]

\* C2: when the completion call fails or its text is not valid JSON, tool
\* selection returns exactly ["profile", "search"], having made one
\* completion call.
C2_DefaultToolsOnFailure ==
    (/\ fnOut.fn = "select"
     /\ (~fnIn.completion.ok \/ fnIn.completion.content \in SelKind.notJson))
    => /\ fnOut.tools = <<JS("string", Tool.profile), JS("string", Tool.search)>>
       /\ fnOut.groqCalls = 1

C2_Witness ==
    /\ fnOut.fn = "select"
    /\ fnIn.completion.ok
    /\ fnIn.completion.content = SelText.truncated
    /\ fnOut.tools = <<JS("string", Tool.profile), JS("string", Tool.search)>>

\* C3 as claimed: valid JSON that is not an array (an object, a string, a
\* number, null) makes tool selection fall back to ["profile", "search"].
C3_Claimed_DefaultOnNonArray ==
    (/\ fnOut.fn = "select"
     /\ fnIn.completion.ok
     /\ fnIn.completion.content \in SelKind.nonArray)
    => fnOut.tools = <<JS("string", Tool.profile), JS("string", Tool.search)>>

\* C3 amended: valid JSON that is not an array makes tool selection return
\* the empty list, so no tool is selected; the default list is returned only
\* when the call fails or the text does not parse.
C3_EmptyListOnNonArray ==
    (/\ fnOut.fn = "select"
     /\ fnIn.completion.ok
     /\ fnIn.completion.content \in SelKind.nonArray)
    => fnOut.tools = <<>>

C3_Witness ==
    /\ fnOut.fn = "select"
    /\ fnIn.completion = GroqReturns(SelText.object)
    /\ fnOut.tools = <<>>

-----------------------------------------------------------------------------
(* Parameter extraction (AgentService.generateSearchParams) *)

IsBlankMessage(userMessage) == Len(Trim(userMessage)) = 0

InvalidQueryNoTrim(q) == q.t # "string" \/ Len(q.v) = 0

(* !q || typeof q !== 'string' || q.trim().length === 0 *)
InvalidQuery(q) == q.t # "string" \/ Len(Trim(q.v)) = 0

Params(query, category) ==
    JS("object", << <<Key.query, JS("string", query)>>, <<Key.category, JS("string", category)>> >>)

(* The keyword chain of the catch block, on the lower-cased trimmed text. *)
FallbackCategoryLastWins(lowerMessage) ==
    IF Includes(lowerMessage, Kw.buy) \/ Includes(lowerMessage, Kw.shop)
           \/ Includes(lowerMessage, Kw.product) THEN Cat.products
    ELSE IF Includes(lowerMessage, Kw.restaurant) \/ Includes(lowerMessage, Kw.food)
           \/ Includes(lowerMessage, Kw.pizza) \/ Includes(lowerMessage, Kw.eat) THEN Cat.restaurants
    ELSE IF Includes(lowerMessage, Kw.flight) \/ Includes(lowerMessage, Kw.fly) THEN Cat.flights
    ELSE IF Includes(lowerMessage, Kw.hotel) \/ Includes(lowerMessage, Kw.stay) THEN Cat.hotels
    ELSE Cat.general

FallbackCategory(lowerMessage) ==
    IF Includes(lowerMessage, Kw.hotel) \/ Includes(lowerMessage, Kw.stay) THEN Cat.hotels
    ELSE IF Includes(lowerMessage, Kw.flight) \/ Includes(lowerMessage, Kw.fly) THEN Cat.flights
    ELSE IF Includes(lowerMessage, Kw.restaurant) \/ Includes(lowerMessage, Kw.food)
           \/ Includes(lowerMessage, Kw.pizza) \/ Includes(lowerMessage, Kw.eat) THEN Cat.restaurants
    ELSE IF Includes(lowerMessage, Kw.buy) \/ Includes(lowerMessage, Kw.shop)
           \/ Includes(lowerMessage, Kw.product) THEN Cat.products
    ELSE Cat.general

FallbackParams(userMessage) ==
    LET trimmedMessage == Trim(userMessage)
    IN  Params(trimmedMessage, FallbackCategory(ToLowerCase(trimmedMessage)))

(* The text handed to JSON.parse: from the first '{' to the last '}' when *)
(* both exist in that order, else the whole trimmed response.             *)
JsonCandidate(response) ==
    LET cleanResponse == TrimText(response)
        jsonStart     == IndexOf(cleanResponse, "{")
        jsonEnd       == LastIndexOf(cleanResponse, "}")
    IN  IF jsonStart # -1 /\ jsonEnd # -1 /\ jsonStart < jsonEnd
        THEN Substring(cleanResponse, jsonStart, jsonEnd + 1)
        ELSE cleanResponse

GenerateSearchParamsAlwaysAsks(userMessage, completion) ==
    LET parsed == JSONParse(JsonCandidate(completion.content))
    IN  IF IsBlankMessage(userMessage)
        THEN [params |-> Params(Cat.generalSearch, Cat.general), groqCalls |-> 1]
        ELSE IF completion.ok /\ parsed.ok /\ ~InvalidQuery(Get(parsed.value, Key.query))
        THEN [params |-> parsed.value, groqCalls |-> 1]
        ELSE [params |-> FallbackParams(userMessage), groqCalls |-> 1]

GenerateSearchParamsUnvalidated(userMessage, completion) ==
    LET parsed == JSONParse(JsonCandidate(completion.content))
    IN  IF IsBlankMessage(userMessage)
        THEN [params |-> Params(Cat.generalSearch, Cat.general), groqCalls |-> 0]
        ELSE IF completion.ok /\ parsed.ok /\ parsed.value.t = "object"
        THEN [params |-> parsed.value, groqCalls |-> 1]
        ELSE [params |-> FallbackParams(userMessage), groqCalls |-> 1]

GenerateSearchParams(userMessage, completion) ==
    LET parsed == JSONParse(JsonCandidate(completion.content))
    IN  IF IsBlankMessage(userMessage)
        THEN [params |-> Params(Cat.generalSearch, Cat.general), groqCalls |-> 0]
        ELSE IF ~completion.ok
        THEN [params |-> FallbackParams(userMessage), groqCalls |-> 1]
        ELSE IF ~parsed.ok
        THEN [params |-> FallbackParams(userMessage), groqCalls |-> 1]
        ELSE IF InvalidQuery(Get(parsed.value, Key.query))
        THEN [params |-> FallbackParams(userMessage), groqCalls |-> 1]
        ELSE [params |-> parsed.value, groqCalls |-> 1]

(* Completion texts for the extraction prompt *)
ExtText ==
    LET Member(k, v) == <<Tok("str", k), Tok("punct", ":"), Tok("ws", " "), v>>
        general   == <<Tok("punct", "{")>> \o Member(Key.query, Tok("str", Txt.pizzaPlaces)) \o <<Tok("punct", ",")>>
                        \o Member(Key.category, Tok("str", Cat.general)) \o <<Tok("punct", "}")>>
        queryOnly == <<Tok("ws", " "), Tok("punct", "{")>> \o Member(Key.query, Tok("str", Txt.phone)) \o <<Tok("punct", "}"), Tok("ws", " ")>>
    IN
    [ hotels      |-> <<Tok("punct", "{")>> \o Member(Key.query, Tok("str", Txt.hotelsInMombasa)) \o <<Tok("punct", ",")>>
                        \o Member(Key.category, Tok("str", Cat.hotels)) \o <<Tok("punct", ",")>>
                        \o Member(Key.location, Tok("str", Txt.Mombasa)) \o <<Tok("punct", "}")>>,
      hotelsNoPlace |-> <<Tok("punct", "{")>> \o Member(Key.query, Tok("str", Txt.hotelsInMombasa)) \o <<Tok("punct", ",")>>
                        \o Member(Key.category, Tok("str", Cat.hotels)) \o <<Tok("punct", "}")>>,
      general     |-> general,
      queryOnly   |-> queryOnly,
      wrapped     |-> <<Tok("word", "Here"), Tok("ws", " "), Tok("word", "you"), Tok("ws", " "), Tok("word", "go"), Tok("ws", " ")>> \o general
                        \o <<Tok("ws", " "), Tok("word", "Enjoy")>>,
      noQuery     |-> <<Tok("punct", "{")>> \o Member(Key.category, Tok("str", Cat.hotels)) \o <<Tok("punct", "}")>>,
      blankQuery  |-> <<Tok("punct", "{")>> \o Member(Key.query, Tok("str", Txt.spaces)) \o <<Tok("punct", "}")>>,
      emptyQuery  |-> <<Tok("punct", "{")>> \o Member(Key.query, Tok("str", <<>>)) \o <<Tok("punct", "}")>>,
      numberQuery |-> <<Tok("punct", "{")>> \o Member(Key.query, Tok("num", 42)) \o <<Tok("punct", "}")>>,
      nullQuery   |-> <<Tok("punct", "{")>> \o Member(Key.query, Tok("lit", "null")) \o <<Tok("punct", "}")>>,
      emptyObj    |-> <<Tok("punct", "{"), Tok("punct", "}")>>,
      array       |-> <<Tok("punct", "["), Tok("str", Txt.phone), Tok("punct", "]")>>,
      null        |-> <<Tok("lit", "null")>>,
      string      |-> <<Tok("str", Txt.phone)>>,
      prose       |-> <<Tok("word", "I"), Tok("ws", " "), Tok("word", "cannot"), Tok("ws", " "), Tok("word", "help")>>,
      empty       |-> <<>>,
      truncated   |-> <<Tok("punct", "{")>> \o Member(Key.query, Tok("str", Txt.phone)),
      twoObjects  |-> queryOnly \o <<Tok("word", "or")>> \o general,
      backwards   |-> <<Tok("punct", "}"), Tok("ws", " "), Tok("punct", "{")>> ]

(* What the heuristic is to give for each message explored, written out. *)
ExpectedFallback ==
    (Msg.food      :> Params(Msg.food, Cat.restaurants)) @@
    (Msg.hotel     :> Params(Msg.hotel, Cat.hotels)) @@
    (Msg.padded    :> Params(Txt.paddedTrimmed, Cat.flights)) @@
    (Msg.butterfly :> Params(Msg.butterfly, Cat.flights)) @@
    (Msg.eatStay  :> Params(Msg.eatStay, Cat.hotels)) @@
    (Msg.buyFood  :> Params(Msg.buyFood, Cat.restaurants)) @@
    (Msg.shop      :> Params(Msg.shop, Cat.products)) @@
    (Msg.hi        :> Params(Msg.hi, Cat.general))

\* C4: for a non-empty message whose extraction completion fails, or whose
\* text fails parsing or validation, the parameters are {query: the trimmed
\* message, category: the first matching group in the order hotel/stay,
\* flight/fly, restaurant/food/pizza/eat, buy/shop/product, else general},
\* matched case-insensitively as substrings.
C4_HeuristicFallback ==
    LET unusable == { ExtText.noQuery, ExtText.blankQuery, ExtText.emptyQuery,
                      ExtText.numberQuery, ExtText.nullQuery, ExtText.emptyObj,
                      ExtText.array, ExtText.null, ExtText.string, ExtText.prose,
                      ExtText.empty, ExtText.truncated, ExtText.twoObjects,
                      ExtText.backwards }
    IN  (/\ fnOut.fn = "params"
         /\ fnIn.message \in DOMAIN ExpectedFallback
         /\ (~fnIn.completion.ok \/ fnIn.completion.content \in unusable))
        => fnOut.params = ExpectedFallback[fnIn.message]

C4_Witness ==
    /\ fnOut.fn = "params"
    /\ fnIn.message = Msg.food
    /\ ~fnIn.completion.ok
    /\ Get(fnOut.params, Key.category) = JS("string", Cat.restaurants)
    /\ Get(fnOut.params, Key.query) = JS("string", Msg.food)

\* C5: for an empty or whitespace-only message the parameters are exactly
\* {query: "general search", category: "general"} and no completion call
\* is made.
C5_BlankMessageNoCall ==
    (fnOut.fn = "params" /\ fnIn.message \in {Msg.empty, Msg.blank})
    => /\ fnOut.params = Params(Cat.generalSearch, Cat.general)
       /\ fnOut.groqCalls = 0

C5_Witness ==
    /\ fnOut.fn = "params"
    /\ fnIn.message = Msg.blank
    /\ fnIn.completion = GroqReturns(ExtText.hotels)
    /\ fnOut.groqCalls = 0

-----------------------------------------------------------------------------
(* The orchestrator (AgentService.runAgentPrompt) and the messaging       *)
(* adapter (BotService) around it.  Fixed texts of the source are written *)
(* as one-element sequences: the code stores, concatenates and sends      *)
(* them, and never looks inside.                                          *)

Reply ==
    [ fallback    |-> <<"I'm having trouble searching right now. Please try rephrasing your request or try again later.">>,
      fallbackAlt |-> <<"I'm having trouble with my search capabilities right now.">>,
      menu        |-> <<" \n\nI can still help you with general information or recommendations based on common preferences. What specific type of assistance are you looking for? \n\nHotels\nRestaurants  \nFlights\nProducts\n\nPlease try asking your question in a different way, and I'll do my best to help!">>,
      apology     |-> <<"I'm sorry, I'm having trouble processing your request right now. Please try again in a moment.">>,
      sorry       |-> <<"I'm sorry, I'm having trouble right now. Please try again in a moment.">>,
      answer      |-> <<"Here are the top options I found for you.">>,
      noSummary   |-> <<"No user information available.">>,
      noHistory   |-> <<"No previous conversation history.">> ]

Err ==
    [ query       |-> <<"Search query is required and cannot be empty">>,
      hotel       |-> <<"Location is required for hotel search">>,
      origin      |-> <<"Origin is required for flight search">>,
      destination |-> <<"Destination is required for flight search">>,
      restaurant  |-> <<"Location is required for restaurant search">>,
      product     |-> <<"Product name is required for product search">>,
      notFunction |-> <<"trim is not a function">>,
      noTool      |-> <<"Cannot read properties of undefined (reading 'execute')">>,
      tavily      |-> <<"Tavily search error: ">>,
      network     |-> <<"Tavily API error: 500">>,
      readProfile |-> <<"Failed to read user profile">>,
      saveProfile |-> <<"Failed to save user profile">>,
      notReady    |-> <<"WhatsApp client is not ready">>,
      transport   |-> <<"Connection Closed">> ]

(* JavaScript truthiness of a value *)
Truthy(v) ==
    CASE v.t = "undefined" -> FALSE
      [] v.t = "null"      -> FALSE
      [] v.t = "boolean"   -> v.v
      [] v.t = "number"    -> v.v # 0
      [] v.t = "string"    -> Len(v.v) > 0
      [] OTHER             -> TRUE

MapSetFront(m, k, v) ==
    <<<<k, v>>>> \o SelectSeq(m, LAMBDA e : e[1] # k)

(* A Map in insertion order: set of an existing key keeps its place. *)
MapSet(m, k, v) ==
    IF \E i \in 1..Len(m) : m[i][1] = k
    THEN [i \in 1..Len(m) |-> IF m[i][1] = k THEN <<k, v>> ELSE m[i]]
    ELSE Append(m, <<k, v>>)

MapKeys(m) == [i \in 1..Len(m) |-> m[i][1]]

(* What an executor call left in the result map *)
SearchResponse(query) == [t |-> "response", query |-> query, results |-> 3]
SummaryText(text)     == [t |-> "string", v |-> text]
ToolErrorWithFallback(message) ==
    [t |-> "error", error |-> message, fallbackMessage |-> Reply.fallback]
ToolError(message)    == [t |-> "error", error |-> message]
SearchError(message)  ==
    [t |-> "error", error |-> message, fallbackMessage |-> Reply.fallback]

(* The Search Service request an executor is about to make, or the error *)
(* it throws before making any.                                          *)
Fetch(query)  == [ok |-> TRUE, query |-> query]
Throws(message) == [ok |-> FALSE, error |-> message]

(* TavilyService.search up to the fetch *)
TavilySearch(query) ==
    IF InvalidQuery(query) THEN Throws(Err.tavily \o Err.query)
    ELSE Fetch(Trim(query.v))

(* `${x ? ' label ' + x : ''}` for an optional argument *)
Optional(label, v) ==
    IF ~Truthy(v) THEN <<>>
    ELSE IF v.t = "string" THEN <<label>> \o v.v
    ELSE <<label, "String(value)">>

SearchHotels(location, checkIn) ==
    IF InvalidQuery(location) THEN Throws(Err.hotel)
    ELSE TavilySearch(JS("string", <<"hotels in ">> \o Trim(location.v)
                              \o Optional(" check-in ", checkIn)))

SearchFlights(origin, destination, departureDate) ==
    IF InvalidQuery(origin) THEN Throws(Err.origin)
    ELSE IF InvalidQuery(destination) THEN Throws(Err.destination)
    ELSE TavilySearch(JS("string", <<"flights from ">> \o Trim(origin.v) \o <<" to ">>
                              \o Trim(destination.v) \o Optional(" on ", departureDate)))

(* cuisine && cuisine.trim(): a truthy value that is no string has no trim *)
SearchRestaurants(location, cuisine) ==
    IF InvalidQuery(location) THEN Throws(Err.restaurant)
    ELSE IF Truthy(cuisine) /\ cuisine.t # "string" THEN Throws(Err.notFunction)
    ELSE TavilySearch(JS("string", (IF Truthy(cuisine) /\ Len(Trim(cuisine.v)) > 0
                               THEN Trim(cuisine.v) \o <<" ">> ELSE <<>>)
                              \o <<"restaurants in ">> \o Trim(location.v)))

SearchProducts(productName, budget) ==
    IF InvalidQuery(productName) THEN Throws(Err.product)
    ELSE IF Truthy(budget) /\ budget.t # "string" THEN Throws(Err.notFunction)
    ELSE TavilySearch(JS("string", Trim(productName.v)
                              \o (IF Truthy(budget) /\ Len(Trim(budget.v)) > 0
                                  THEN <<" under ">> \o Trim(budget.v) ELSE <<>>)))

ExecuteSearchToolIgnoresCategory(params) ==
    LET query == Get(params, Key.query)
    IN  IF InvalidQuery(query) THEN Throws(Err.query) ELSE TavilySearch(query)

ExecuteSearchTool(params) ==
    LET query       == Get(params, Key.query)
        category    == Get(params, Key.category)
        location    == Get(params, Key.location)
        origin      == Get(params, Key.origin)
        destination == Get(params, Key.destination)
        date        == Get(params, Key.date)
        budget      == Get(params, Key.budget)
    IN  IF InvalidQuery(query) THEN Throws(Err.query)
        ELSE CASE category = JS("string", Cat.hotels) ->
                    SearchHotels(IF Truthy(location) THEN location ELSE destination, date)
               [] category = JS("string", Cat.flights) ->
                    SearchFlights(origin, destination, date)
               [] category = JS("string", Cat.restaurants) ->
                    SearchRestaurants(location, Get(params, Key.cuisine))
               [] category = JS("string", Cat.products) ->
                    SearchProducts(query, budget)
               [] OTHER -> TavilySearch(query)

-----------------------------------------------------------------------------
\* C23: searchHotels, searchFlights, searchRestaurants, searchProducts and
\* search throw, without calling fetch, when the location, the origin or
\* the destination, the location, the product name, the query is missing,
\* no string, empty or made of white space only.
C23_FailFastOnMissingArgument ==
    LET Blank(v) == v.t # "string" \/ \A i \in 1..Len(v.v) : v.v[i] \in WhiteSpace
        Primary ==
            CASE fnIn.method = "searchFlights" -> {fnIn.a, fnIn.b}
              [] OTHER -> {fnIn.a}
        Message ==
            CASE fnIn.method = "search" -> Err.tavily \o Err.query
              [] fnIn.method = "searchHotels" -> Err.hotel
              [] fnIn.method = "searchFlights" ->
                     IF Blank(fnIn.a) THEN Err.origin ELSE Err.destination
              [] fnIn.method = "searchRestaurants" -> Err.restaurant
              [] fnIn.method = "searchProducts" -> Err.product
    IN  (fnOut.fn = "tavily" /\ \E v \in Primary : Blank(v)) =>
            /\ ~fnOut.ok
            /\ fnOut.error = Message

\* searchFlights('Nairobi', ' \t ') threw 'Destination is required for
\* flight search' and made no request.
C23_Witness ==
    /\ fnOut.fn = "tavily"
    /\ fnIn.method = "searchFlights"
    /\ fnIn.a = JS("string", Txt.Nairobi)
    /\ fnIn.b = JS("string", Msg.blank)
    /\ ~fnOut.ok
    /\ fnOut.error = Err.destination

(* A Search Service request by what its fetch comes to, "ok" or "fail" *)
SearchResultSwallowsFailure(request, outcome) ==
    SearchResponse(request.query)

SearchResult(request, outcome) ==
    IF outcome = "ok" THEN SearchResponse(request.query)
    ELSE SearchError(Err.tavily \o Err.network)

SearchRequestsWithRetry(request, outcome) ==
    IF ~request.ok THEN <<>>
    ELSE IF outcome = "fail" THEN <<outcome, outcome>>
    ELSE <<outcome>>

(* The requests one execution of the search tool sends: none when the    *)
(* parameters were refused, else the one fetch of TavilyService.search.  *)
SearchRequests(request, outcome) ==
    IF request.ok THEN <<outcome>> ELSE <<>>

(* ProfileService.getUserSummary on the profile read *)
GetUserSummary(profile) ==
    LET prefs == {k \in DOMAIN profile.preferences : Truthy(profile.preferences[k])}
        favs  == {k \in DOMAIN profile.favorites : Len(profile.favorites[k]) > 0}
    IN  IF prefs = {} /\ favs = {} THEN Reply.noSummary
        ELSE (IF prefs = {} THEN <<>>
              ELSE <<"Preferences: ", [k \in prefs |-> profile.preferences[k]]>>)
             \o (IF favs = {} THEN <<>>
                 ELSE <<"Favorites: ", [k \in favs |-> profile.favorites[k]]>>)

(* ProfileService.getConversationContext on the profile read *)
GetConversationContext(profile, maxEntries) ==
    LET recentConversations == SliceFrom(profile.conversationHistory, -maxEntries)
    IN  IF Len(recentConversations) = 0 THEN Reply.noHistory
        ELSE <<"Recent conversation history:\n">> \o Texts(recentConversations)

(* A profile file left by earlier conversations: the record after so     *)
(* many turns.                                                            *)
Seeded(userId, turns) ==
    JsonFile(Stringify(
        [NewProfile(userId, 0) EXCEPT
            !.conversationHistory =
                [n \in 1..turns |-> [timestamp   |-> 0,
                                     userMessage |-> TurnText("u", n),
                                     botResponse |-> TurnText("b", n)]]]))

-----------------------------------------------------------------------------
(* The functions checked on their own: the call is in fnIn, and the one   *)
(* step applies the function and leaves what it returned in fnOut.        *)

(* The calls explored: determineRequiredTools and generateSearchParams   *)
(* on every message and every completion text above; each method of      *)
(* TavilyService on every combination of missing, null, empty, blank,     *)
(* padded, plain and non-string arguments; getConversationContext on the  *)
(* profile of a user with no file or with up to MaxSeeded turns, for      *)
(* every maxEntries up to MaxEntries.                                     *)
InitFn(fn) ==
    /\ clock = 0
    /\ Constructed
    /\ fnOut = [fn |-> "none"]
    /\ \/ /\ fn = "select"
          /\ files = [u \in Users |-> NoFile]
          /\ fnIn \in [fn : {fn}, message : {Msg[k] : k \in DOMAIN Msg},
                       completion : {GroqThrows} \cup
                                    {GroqReturns(SelText[k]) : k \in DOMAIN SelText}]
       \/ /\ fn = "params"
          /\ files = [u \in Users |-> NoFile]
          /\ fnIn \in [fn : {fn}, message : {Msg[k] : k \in DOMAIN Msg},
                       completion : {GroqThrows} \cup
                                    {GroqReturns(ExtText[k]) : k \in DOMAIN ExtText}]
       \/ /\ fn = "tavily"
          /\ files = [u \in Users |-> NoFile]
          /\ fnIn \in [fn : {fn},
                       method : {"search", "searchHotels", "searchFlights",
                                 "searchRestaurants", "searchProducts"},
                       a : {Undefined, JNull, JS("number", 7), JS("string", <<>>),
                            JS("string", Txt.spaces), JS("string", Msg.blank),
                            JS("string", Txt.Nairobi), JS("string", Msg.padded)},
                       b : {Undefined, JNull, JS("number", 7), JS("string", <<>>),
                            JS("string", Txt.spaces), JS("string", Msg.blank),
                            JS("string", Txt.Mombasa), JS("string", Msg.padded)},
                       c : {Undefined, JS("string", Txt.phone)}]
       \/ /\ fn = "context"
          /\ \E turns \in 0..MaxSeeded :
                 files = [u \in Users |->
                             IF u = "254700" /\ turns > 0 THEN Seeded(u, turns) ELSE NoFile]
          /\ fnIn \in [fn : {fn}, userId : {"254700"}, maxEntries : 0..MaxEntries]

ApplyFn ==
    /\ fnOut.fn = "none"
    /\ CASE fnIn.fn = "select" ->
               /\ fnOut' = [fn |-> "select"] @@
                            DetermineRequiredTools(fnIn.message, fnIn.completion)
               /\ files' = files
         [] fnIn.fn = "params" ->
               /\ fnOut' = [fn |-> "params"] @@
                            GenerateSearchParams(fnIn.message, fnIn.completion)
               /\ files' = files
         [] fnIn.fn = "tavily" ->
               /\ fnOut' = [fn |-> "tavily"] @@
                     CASE fnIn.method = "search" -> TavilySearch(fnIn.a)
                       [] fnIn.method = "searchHotels" -> SearchHotels(fnIn.a, fnIn.c)
                       [] fnIn.method = "searchFlights" ->
                              SearchFlights(fnIn.a, fnIn.b, fnIn.c)
                       [] fnIn.method = "searchRestaurants" ->
                              SearchRestaurants(fnIn.a, fnIn.b)
                       [] fnIn.method = "searchProducts" -> SearchProducts(fnIn.a, fnIn.b)
               /\ files' = files
         [] fnIn.fn = "context" ->
               LET got == GetProfile(files, fnIn.userId, clock)
               IN  /\ got.ok
                   /\ fnOut' = [fn |-> "context",
                                text |-> GetConversationContext(got.profile, fnIn.maxEntries)]
                   /\ files' = got.files
    /\ UNCHANGED <<clock, turnLog, proc, calls, fnIn, botVars, reqVars>>

SpecSelect == InitFn("select") /\ [][ApplyFn]_vars

SpecParams == InitFn("params") /\ [][ApplyFn]_vars

SpecSearch == InitFn("tavily") /\ [][ApplyFn]_vars

SpecContext == InitFn("context") /\ [][ApplyFn]_vars

\* C32: getConversationContext(userId, N) renders the min(N, length) most
\* recent turns of the history, oldest first, for every N >= 0, and gives
\* 'No previous conversation history.' when that is no turn at all.
C32_LastNTurns ==
    fnOut.fn = "context" =>
        LET history == StoredHistory(fnIn.userId)
            len     == Len(history)
            n       == IF fnIn.maxEntries < len THEN fnIn.maxEntries ELSE len
        IN  fnOut.text = IF n = 0 THEN Reply.noHistory
                         ELSE <<"Recent conversation history:\n">> \o
                              Texts(SubSeq(history, len - n + 1, len))

(* this.tools.get(toolName): the registry holds 'search' and 'profile' *)
HasToolAny(toolName) == TRUE

HasTool(toolName) == toolName.t = "string" /\ toolName.v \in {Tool.search, Tool.profile}

(* generateFinalResponse: the check of the search entry ... *)
SearchFailedNever(toolResults) == FALSE

SearchFailedLooksAtProfile(toolResults) ==
    LET searchResult == Lookup(toolResults, Tool.profile)
    IN  searchResult.t = "error" /\ Len(searchResult.error) > 0

SearchFailed(toolResults) ==
    LET searchResult == Lookup(toolResults, Tool.search)
    IN  searchResult.t = "error" /\ Len(searchResult.error) > 0

DegradedResponse(toolResults) ==
    LET searchResult == Lookup(toolResults, Tool.search)
        fallbackMessage ==
            IF "fallbackMessage" \in DOMAIN searchResult /\ Len(searchResult.fallbackMessage) > 0
            THEN searchResult.fallbackMessage
            ELSE Reply.fallbackAlt
    IN  [ message    |-> fallbackMessage \o Reply.menu,
          toolsUsed  |-> MapKeys(toolResults),
          confidence |-> 30 ]

SynthesisResponseNoConfidence(toolResults, completion) ==
    [ message    |-> IF completion.ok THEN completion.content ELSE Reply.apology,
      toolsUsed  |-> IF completion.ok THEN MapKeys(toolResults) ELSE <<>>,
      confidence |-> 0 ]

(* ... and the result of the one synthesis call.  Confidence is in        *)
(* hundredths: 0.85, 0.3, 0.1.                                            *)
SynthesisResponse(toolResults, completion) ==
    IF completion.ok
    THEN [ message    |-> completion.content,
           toolsUsed  |-> MapKeys(toolResults),
           confidence |-> 85 ]
    ELSE [ message    |-> Reply.apology,
           toolsUsed  |-> <<>>,
           confidence |-> 10 ]

(* What runAgentPrompt returns: confidence || 0.8 *)
AgentResponseDefaultConfidence(finalResponse, requiredTools) ==
    [ message    |-> finalResponse.message,
      toolsUsed  |-> requiredTools,
      confidence |-> 80 ]

AgentResponse(finalResponse, requiredTools) ==
    [ message    |-> finalResponse.message,
      toolsUsed  |-> requiredTools,
      confidence |-> IF finalResponse.confidence # 0 THEN finalResponse.confidence ELSE 80 ]

-----------------------------------------------------------------------------
(* Profile Store calls as the orchestrator sees them: besides what the    *)
(* file content gives, fs.readFile and fs.writeFile can reject (EACCES,   *)
(* EIO, ENOSPC); a writeFile that rejects leaves the file as it was or,   *)
(* having opened it, truncated.                                           *)

SaveOutcomes(f, profile, now) ==
    { [ok |-> TRUE,  profile |-> SavedProfile(profile, now), files |-> SaveProfile(f, profile, now)],
      [ok |-> FALSE, profile |-> Corrupt, files |-> f],
      [ok |-> FALSE, profile |-> Corrupt, files |-> OpenForWrite(f, profile.userId)] }

GetProfileOutcomes(f, userId, now) ==
    IF f[userId].kind = "ENOENT"
    THEN SaveOutcomes(f, NewProfile(userId, now), now)
    ELSE {GetProfile(f, userId, now), [ok |-> FALSE, profile |-> Corrupt, files |-> f]}

AddConversationEntryOutcomesUnsaved(f, userId, userMessage, botResponse, now) ==
    GetProfileOutcomes(f, userId, now)

AddConversationEntryOutcomes(f, userId, userMessage, botResponse, now) ==
    UNION { IF got.ok
            THEN SaveOutcomes(got.files, PushEntry(got.profile, userMessage, botResponse, now), now)
            ELSE {got}
            : got \in GetProfileOutcomes(f, userId, now) }

(* The start of a run: user 254700 known from earlier conversations (two  *)
(* turns, or a full history) or not, user 254711 never seen.              *)
Init ==
    /\ \E turns \in {0, 2, HistoryLimit} :
           files = [u \in Users |-> IF u = "254700" /\ turns > 0 THEN Seeded(u, turns) ELSE NoFile]
    /\ clock = 0
    /\ Constructed
    /\ NoFn

-----------------------------------------------------------------------------
(* SpecProfile: every mutating call of the Profile Store, by concurrent  *)
(* callers, on a file left by earlier conversations or on an unseen id,  *)
(* while the wall clock advances.                                         *)
ProfileOps ==
    LET LongHistory ==
            [n \in 1..(HistoryLimit + 1) |->
                [timestamp   |-> 0,
                 userMessage |-> TurnText("u", n),
                 botResponse |-> TurnText("b", n)]]
    IN
    { [name |-> "addConversationEntry", userId |-> "254700",
       userMessage |-> Msg.hi, botResponse |-> Reply.answer],
      [name |-> "addFavorite", userId |-> "254700",
       type |-> "restaurants", item |-> Txt.Carnivore],
      [name |-> "updatePreferences", userId |-> "254700",
       preferences |-> [cuisine |-> JS("string", Txt.pizzaPlaces)]],
      [name |-> "updateProfile", userId |-> "254700",
       updates |-> [name |-> Txt.Nairobi, userId |-> "254711",
                    preferences |-> [budget |-> JS("string", Txt.phone)]]],
      [name |-> "updateProfile", userId |-> "254700",
       updates |-> [conversationHistory |-> LongHistory]] }

SpecProfile ==
    /\ Init
    /\ [][ \/ \E p \in Procs, op \in ProfileOps : StartCall(p, op)
           \/ \E p \in Procs : ReadFile(p)
           \/ \E p \in Procs : CreateOpen(p)
           \/ \E p \in Procs : CreateWrite(p)
           \/ \E p \in Procs : SaveOpen(p)
           \/ \E p \in Procs : SaveWrite(p)
           \/ Tick ]_vars

\* C14: after any completed mutating call of the Profile Store, the stored
\* conversationHistory has at most 50 entries.
C14_HistoryAtMost50 ==
    \A u \in Users : Len(StoredHistory(u)) <= HistoryLimit

\* C19: once two callers have each completed a mutating call on the same
\* user id, the stored content is the full record one of them wrote (the
\* one whose write completed last): records are not merged, and what the
\* other added can be absent.
C19_LastWriterWins ==
    (/\ \A p \in Procs : proc[p].pc = "idle" /\ "wrote" \in DOMAIN proc[p]
     /\ proc["p1"].op.userId = proc["p2"].op.userId)
    => \E p \in Procs : files[proc[p].op.userId] = JsonFile(Stringify(proc[p].wrote))

\* C20: with a clock that never goes back, a stored record is never
\* replaced by a record with an earlier updatedAt, concurrent saves for
\* the same user id included.
C20_UpdatedAtNeverDecreases ==
    [][\A u \in Users :
          (files[u].kind = "json" /\ files'[u].kind = "json") =>
              NewDateFrom(files'[u].data.updatedAt) >= NewDateFrom(files[u].data.updatedAt)]_vars

-----------------------------------------------------------------------------
(* The adapter: inbound events *)

PrivateJid(phoneNumber) == [user |-> phoneNumber, server |-> "s.whatsapp.net"]

(* jid.split('@')[0] *)
ExtractContactId(jid) == jid.user

ExtractMessageContent(content) ==
    IF content.kind \in {"conversation", "extendedTextMessage", "imageMessage", "videoMessage"}
       /\ Len(content.text) > 0
    THEN JS("string", content.text)
    ELSE JNull

(* One message of a messages.upsert event; content is message.message by  *)
(* the kind of content and the text or caption it has.                    *)
Upsert(type, fromMe, remoteJid, hasMessage, kind, text) ==
    [type |-> type, fromMe |-> fromMe, remoteJid |-> remoteJid,
     hasMessage |-> hasMessage, content |-> [kind |-> kind, text |-> text]]

InboundEvents ==
    { Upsert("notify", FALSE, PrivateJid("254700"), TRUE, "conversation", Msg.hotel),
      Upsert("notify", FALSE, PrivateJid("254700"), TRUE, "extendedTextMessage", Msg.blank),
      Upsert("notify", FALSE, PrivateJid("254711"), TRUE, "imageMessage", Msg.shop),
      Upsert("notify", FALSE, [user |-> "1203630", server |-> "g.us"], TRUE, "conversation", Msg.hotel),
      Upsert("notify", TRUE,  PrivateJid("254700"), TRUE, "conversation", Msg.hi),
      Upsert("append", FALSE, PrivateJid("254700"), TRUE, "conversation", Msg.hi),
      Upsert("notify", FALSE, PrivateJid("254711"), FALSE, "none", <<>>),
      Upsert("notify", FALSE, PrivateJid("254711"), TRUE, "stickerMessage", <<>>),
      Upsert("notify", FALSE, PrivateJid("254711"), TRUE, "imageMessage", <<>>),
      Upsert("notify", FALSE, PrivateJid("254711"), TRUE, "conversation", <<>>),
      Upsert("notify", FALSE, NoJid, TRUE, "conversation", Msg.hi) }

(* What the Completion Service answers at each step.  The orchestrator   *)
(* alone is explored with every kind of answer, the adapter around it    *)
(* with a failing call and one answer per step.                          *)
Explored ==
    [ agent |->
        [ select  |-> {GroqThrows} \cup
                      {GroqReturns(t) : t \in {SelText.both, SelText.search, SelText.profile,
                                               SelText.none, SelText.unknown, SelText.reversed,
                                               SelText.mixed, SelText.twice, SelText.object}},
          extract |-> {GroqThrows} \cup
                      {GroqReturns(t) : t \in {ExtText.hotels, ExtText.hotelsNoPlace,
                                               ExtText.general, ExtText.prose}},
          synth   |-> {GroqThrows, GroqReturns(Reply.answer), GroqReturns(<<>>)} ],
      adapter |->
        [ select  |-> {GroqThrows, GroqReturns(SelText.none)},
          extract |-> {GroqThrows, GroqReturns(ExtText.general)},
          synth   |-> {GroqThrows, GroqReturns(Reply.answer)} ] ]

(* BotService.sendMessage up to its await: it throws when the flag is     *)
(* down, else it has invoked sock.sendMessage.                            *)
SendMessageSilent(ready, sent, jid, message) ==
    IF ~ready
    THEN [status |-> "returned", error |-> <<>>, transport |-> sent]
    ELSE [status |-> "invoked", error |-> <<>>,
          transport |-> Append(sent, [jid |-> jid, text |-> message])]

SendMessageUnchecked(ready, sent, jid, message) ==
    [status |-> "invoked", error |-> <<>>,
     transport |-> Append(sent, [jid |-> jid, text |-> message])]

SendMessage(ready, sent, jid, message) ==
    IF ~ready
    THEN [status |-> "threw", error |-> Err.notReady, transport |-> sent]
    ELSE [status |-> "invoked", error |-> <<>>,
          transport |-> Append(sent, [jid |-> jid, text |-> message])]

SendMessageToContact(ready, sent, phoneNumber, message) ==
    SendMessage(ready, sent, PrivateJid(phoneNumber), message)

(* phoneNumbers.map(phone => this.sendMessageToContact(phone, message)):  *)
(* every call runs up to its await before the map returns.                *)
RECURSIVE MapSendMessageToContact(_, _, _, _)
MapSendMessageToContact(ready, sent, phoneNumbers, message) ==
    IF phoneNumbers = <<>> THEN sent
    ELSE MapSendMessageToContact(
             ready,
             SendMessageToContact(ready, sent, Head(phoneNumbers), message).transport,
             Tail(phoneNumbers), message)

IsClientReady == isReady

-----------------------------------------------------------------------------
(* Spec: one inbound message at a time through handleIncomingMessage and  *)
(* runAgentPrompt, calls on the adapter from outside, and the connection  *)
(* events of the socket, interleaved at every await.                      *)

(* messages.upsert: the filters of the listener and of                    *)
(* handleIncomingMessage, up to the typing indicator.                     *)
MessagesUpsert(m) ==
    LET messageContent == ExtractMessageContent(m.content)
        fromJid        == m.remoteJid
        contactId      == ExtractContactId(fromJid)
        handled        == /\ m.hasMessage
                          /\ ~m.fromMe
                          /\ m.type = "notify"
                          /\ fromJid # NoJid          \* else extractContactId throws
                          /\ Truthy(messageContent)
                          /\ fromJid.server # "g.us"
    IN  /\ req.pc \in {"idle", "done"}
        /\ started < MaxRequests
        /\ started' = started + 1
        /\ req' = IF handled
                  THEN [IdleReq EXCEPT !.pc = "composing",
                                       !.event = m,
                                       !.jid = fromJid,
                                       !.userId = contactId,
                                       !.userMessage = messageContent.v,
                                       !.histBefore = StoredHistory(contactId),
                                       !.fileBefore = files[contactId]]
                  ELSE [IdleReq EXCEPT !.pc = "done", !.event = m]
        /\ UNCHANGED <<storeVars, botVars, api, transport, OutsideBot>>

(* sock.sendPresenceUpdate('composing') settles; runAgentPrompt is called *)
ComposingSettles ==
    /\ req.pc = "composing"
    /\ \E ok \in BOOLEAN :
           req' = IF ok THEN [req EXCEPT !.pc = "context", !.agent = "running"]
                  ELSE [req EXCEPT !.pc = "apology"]
    /\ UNCHANGED <<storeVars, botVars, api, transport, started, OutsideBot>>

AgentSwallows(r) == [r EXCEPT !.pc = "returned", !.agent = "returned"]

(* The catch block of runAgentPrompt: 'Agent processing failed' reaches   *)
(* the catch block of handleIncomingMessage.                              *)
AgentThrows(r) == [r EXCEPT !.pc = "threw", !.agent = "threw"]

LoadConversationContext ==
    /\ req.pc = "context"
    /\ \E got \in GetProfileOutcomes(files, req.userId, clock) :
           /\ files' = got.files
           /\ req' = IF got.ok
                     THEN [req EXCEPT !.pc = "profile",
                                      !.profileLog = Append(@, got.profile),
                                      !.conversationHistory =
                                          GetConversationContext(got.profile, 3)]
                     ELSE AgentThrows([req EXCEPT !.ioFailed = TRUE])
    /\ UNCHANGED <<clock, botVars, api, transport, started, OutsideBot>>

LoadUserProfile ==
    /\ req.pc = "profile"
    /\ \E got \in GetProfileOutcomes(files, req.userId, clock) :
           /\ files' = got.files
           /\ req' = IF got.ok THEN [req EXCEPT !.pc = "select",
                                                !.profileLog = Append(@, got.profile)]
                     ELSE AgentThrows([req EXCEPT !.ioFailed = TRUE])
    /\ UNCHANGED <<clock, botVars, api, transport, started, OutsideBot>>

DetermineTools(env) ==
    /\ req.pc = "select"
    /\ \E completion \in env.select :
           LET selected == DetermineRequiredTools(req.userMessage, completion)
           IN  req' = [req EXCEPT !.pc = "tools",
                                  !.requiredTools = selected.tools,
                                  !.toolIdx = 1,
                                  !.groqLog = Append(@, "select"),
                                  !.failed = IF completion.ok THEN @ ELSE @ \cup {"select"}]
    /\ UNCHANGED <<storeVars, botVars, api, transport, started, OutsideBot>>

(* One turn of the loop of executeToolsInSequence *)
ExecuteNextTool(env) ==
    /\ req.pc = "tools"
    /\ req.toolIdx <= Len(req.requiredTools)
    /\ LET toolName == req.requiredTools[req.toolIdx]
       IN  CASE ~HasTool(toolName) ->
                  /\ req' = [req EXCEPT !.toolIdx = @ + 1]
                  /\ files' = files
             [] toolName = JS("string", Tool.search) ->
                  \E completion \in env.extract, outcome \in {"ok", "fail"} :
                      LET extracted == GenerateSearchParams(req.userMessage, completion)
                          request   == ExecuteSearchTool(extracted.params)
                          result    == IF request.ok THEN SearchResult(request, outcome)
                                       ELSE SearchError(request.error)
                      IN  /\ req' = [req EXCEPT
                                 !.toolIdx = @ + 1,
                                 !.execLog = Append(@, Tool.search),
                                 !.searchLog = Append(@,
                                     [heuristic |-> extracted.groqCalls = 1 /\
                                          extracted.params = FallbackParams(req.userMessage),
                                      category  |-> Get(extracted.params, Key.category),
                                      deadEnd   |->      \* ... with no place to search in
                                          /\ extracted.groqCalls = 1
                                          /\ extracted.params = FallbackParams(req.userMessage)
                                          /\ Get(extracted.params, Key.category) \in
                                                 {JS("string", Cat.hotels),
                                                  JS("string", Cat.flights),
                                                  JS("string", Cat.restaurants)},
                                      sent      |-> request.ok]),
                                 !.params = extracted.params,
                                 !.toolResults = MapSet(@, Tool.search, result),
                                 !.failed = (@ \ {"extract", "search"}) \cup
                                     (IF extracted.groqCalls = 1 /\ ~completion.ok
                                      THEN {"extract"} ELSE {}) \cup
                                     (IF request.ok /\ outcome = "fail"
                                      THEN {"search"} ELSE {}),
                                 !.groqLog = IF extracted.groqCalls = 1
                                             THEN Append(@, "extract") ELSE @,
                                 !.tavilyLog = @ \o SearchRequests(request, outcome)]
                          /\ files' = files
             [] toolName = JS("string", Tool.profile) ->
                  \E got \in GetProfileOutcomes(files, req.userId, clock) :
                      /\ files' = got.files
                      /\ req' = [req EXCEPT
                             !.toolIdx = @ + 1,
                             !.execLog = Append(@, Tool.profile),
                             !.ioFailed = @ \/ ~got.ok,
                             !.profileLog = IF got.ok THEN Append(@, got.profile) ELSE @,
                             !.toolResults =
                                 MapSet(@, Tool.profile,
                                        IF got.ok THEN SummaryText(GetUserSummary(got.profile))
                                        ELSE ToolError(Err.readProfile))]
             [] OTHER ->      \* tool.execute of a tool the registry does not hold
                  /\ req' = [req EXCEPT
                             !.toolIdx = @ + 1,
                             !.execLog = Append(@, <<"?">>),
                             !.toolResults =
                                 MapSet(@, IF toolName.t = "string" THEN toolName.v
                                           ELSE <<toolName.t>>,
                                        ToolError(Err.noTool))]
                  /\ files' = files
    /\ UNCHANGED <<clock, botVars, api, transport, started, OutsideBot>>

GenerateFinalResponse(env) ==
    /\ req.pc = "tools"
    /\ req.toolIdx > Len(req.requiredTools)
    /\ IF SearchFailed(req.toolResults)
       THEN /\ req' = [req EXCEPT !.pc = "save",
                                  !.finalResponse = DegradedResponse(req.toolResults)]
            /\ files' = files
       ELSE \E got \in GetProfileOutcomes(files, req.userId, clock),
               completion \in env.synth :
                /\ files' = got.files
                /\ req' = IF got.ok
                          THEN [req EXCEPT
                                   !.pc = "save",
                                   !.profileLog = Append(@, got.profile),
                                   !.finalResponse =
                                       SynthesisResponse(req.toolResults, completion),
                                   !.groqLog = Append(@, "synth"),
                                   !.synthesis = IF completion.ok THEN "ok" ELSE "failed",
                                   !.failed = IF completion.ok THEN @ ELSE @ \cup {"synth"}]
                          ELSE AgentThrows([req EXCEPT !.ioFailed = TRUE])
    /\ UNCHANGED <<clock, botVars, api, transport, started, OutsideBot>>

(* addConversationEntry, then runAgentPrompt returns *)
SaveConversation ==
    /\ req.pc = "save"
    /\ \E out \in AddConversationEntryOutcomes(files, req.userId, req.userMessage,
                                               req.finalResponse.message, clock) :
           /\ files' = out.files
           /\ req' = IF out.ok
                     THEN [req EXCEPT !.pc = "returned",
                                      !.agent = "returned",
                                      !.response =
                                          AgentResponse(req.finalResponse, req.requiredTools)]
                     ELSE AgentThrows([req EXCEPT !.ioFailed = TRUE])
    /\ UNCHANGED <<clock, botVars, api, transport, started, OutsideBot>>

SendReply ==
    /\ req.pc = "returned"
    /\ req.jid # NoJid
    /\ LET sent == SendMessage(isReady, transport, req.jid, req.response.message)
       IN  /\ transport' = sent.transport
           /\ req' = [req EXCEPT !.replyReady = (IF isReady THEN "ready" ELSE "notReady"),
                                 !.sends = @ + Len(sent.transport) - Len(transport),
                                 !.pc = CASE sent.status = "invoked"  -> "replying"
                                          [] sent.status = "threw"    -> "apology"
                                          [] sent.status = "returned" -> "paused"]
    /\ UNCHANGED <<storeVars, botVars, api, started, OutsideBot>>

ReplySettles ==
    /\ req.pc = "replying"
    /\ \E ok \in BOOLEAN :
           req' = [req EXCEPT !.pc = IF ok THEN "paused" ELSE "apology",
                              !.delivered = IF ok THEN Append(@, "reply") ELSE @]
    /\ UNCHANGED <<storeVars, botVars, api, transport, started, OutsideBot>>

(* sock.sendPresenceUpdate('paused') settles *)
PausedSettles ==
    /\ req.pc = "paused"
    /\ \E ok \in BOOLEAN : req' = [req EXCEPT !.pc = IF ok THEN "done" ELSE "apology"]
    /\ UNCHANGED <<storeVars, botVars, api, transport, started, OutsideBot>>

(* The catch block of handleIncomingMessage *)
SendApology ==
    /\ req.pc \in {"threw", "apology"}
    /\ req.jid # NoJid
    /\ LET sent == SendMessage(isReady, transport, req.jid, Reply.sorry)
       IN  /\ transport' = sent.transport
           /\ req' = [req EXCEPT !.apologyReady = (IF isReady THEN "ready" ELSE "notReady"),
                                 !.sends = @ + Len(sent.transport) - Len(transport),
                                 !.pc = IF sent.status = "invoked" THEN "apologizing"
                                        ELSE "done"]
    /\ UNCHANGED <<storeVars, botVars, api, started, OutsideBot>>

ApologySettles ==
    /\ req.pc = "apologizing"
    /\ \E ok \in BOOLEAN :
           req' = [req EXCEPT !.pc = "done",
                              !.delivered = IF ok THEN Append(@, "apology") ELSE @]
    /\ UNCHANGED <<storeVars, botVars, api, transport, started, OutsideBot>>

(* POST /bot/send: BotController.sendMessage -> sendMessageToContact; the *)
(* controller logs what it catches and throws it again.                   *)
ControllerSendMessage(phoneNumber, message) ==
    /\ api.pc \in {"idle", "done"}
    /\ started < MaxRequests
    /\ started' = started + 1
    /\ LET sent == SendMessageToContact(isReady, transport, phoneNumber, message)
       IN  /\ transport' = sent.transport
           /\ api' = [ pc          |-> IF sent.status = "invoked" THEN "sending" ELSE "done",
                       op          |-> "send",
                       to          |-> <<phoneNumber>>,
                       readyAtCall |-> isReady,
                       invoked     |-> Len(sent.transport) - Len(transport),
                       outcome     |-> CASE sent.status = "invoked"  -> "pending"
                                         [] sent.status = "threw"    -> "rejected"
                                         [] sent.status = "returned" -> "resolved",
                       error       |-> sent.error ]
    /\ UNCHANGED <<storeVars, botVars, req, OutsideBot>>

BroadcastMessage(phoneNumbers, message) ==
    /\ api.pc \in {"idle", "done"}
    /\ started < MaxRequests
    /\ started' = started + 1
    /\ LET sent == IF ~isReady THEN transport
                   ELSE MapSendMessageToContact(isReady, transport, phoneNumbers, message)
       IN  /\ transport' = sent
           /\ api' = [ pc          |-> IF isReady THEN "sending" ELSE "done",
                       op          |-> "broadcast",
                       to          |-> phoneNumbers,
                       readyAtCall |-> isReady,
                       invoked     |-> Len(sent) - Len(transport),
                       outcome     |-> IF isReady THEN "pending" ELSE "rejected",
                       error       |-> IF isReady THEN <<>> ELSE Err.notReady ]
    /\ UNCHANGED <<storeVars, botVars, req, OutsideBot>>

(* The sends of the call settle: a send rejects to the route's caller,    *)
(* Promise.allSettled of a broadcast resolves whatever the sends did.     *)
ApiSettles ==
    /\ api.pc = "sending"
    /\ \E ok \in BOOLEAN :
           api' = [api EXCEPT
                      !.pc = "done",
                      !.outcome = IF ok \/ api.op = "broadcast" THEN "resolved" ELSE "rejected",
                      !.error = IF ok \/ api.op = "broadcast" THEN <<>> ELSE Err.transport]
    /\ UNCHANGED <<storeVars, botVars, req, transport, started, OutsideBot>>

(* connection.update *)
ConnectionUpdateQr ==
    /\ conn = "connecting"
    /\ qrCodeData = "null"
    /\ qrCodeData' = "qr"
    /\ UNCHANGED <<isReady, conn, storeVars, reqVars, OutsideBot>>

ConnectionUpdateOpen ==
    /\ conn = "connecting"
    /\ isReady' = TRUE
    /\ qrCodeData' = "null"
    /\ conn' = "open"
    /\ UNCHANGED <<storeVars, reqVars, OutsideBot>>

(* close: the flag goes down; unless logged out, the client is set up     *)
(* again after the delay, which can fail.                                 *)
ConnectionUpdateClose(shouldReconnect, initialized) ==
    /\ conn \in {"connecting", "open"}
    /\ isReady' = FALSE
    /\ conn' = IF shouldReconnect /\ initialized THEN "connecting" ELSE "closed"
    /\ UNCHANGED <<qrCodeData, storeVars, reqVars, OutsideBot>>

Spec ==
    /\ Init
    /\ [][ \/ \E m \in InboundEvents : MessagesUpsert(m)
           \/ ComposingSettles
           \/ LoadConversationContext
           \/ LoadUserProfile
           \/ DetermineTools(Explored.adapter)
           \/ ExecuteNextTool(Explored.adapter)
           \/ GenerateFinalResponse(Explored.adapter)
           \/ SaveConversation
           \/ SendReply
           \/ ReplySettles
           \/ PausedSettles
           \/ SendApology
           \/ ApologySettles
           \/ \E phoneNumber \in Users : ControllerSendMessage(phoneNumber, Reply.answer)
           \/ \E phoneNumbers \in {<<>>, <<"254700", "254711">>} :
                  BroadcastMessage(phoneNumbers, Reply.answer)
           \/ ApiSettles
           \/ ConnectionUpdateQr
           \/ ConnectionUpdateOpen
           \/ \E shouldReconnect \in BOOLEAN, initialized \in BOOLEAN :
                  ConnectionUpdateClose(shouldReconnect, initialized) ]_vars

-----------------------------------------------------------------------------
(* SpecAgent: runAgentPrompt alone, called with a user id and a message,  *)
(* one call after the other, against every kind of completion.            *)

RunAgentPrompt(userMessage, userId) ==
    /\ req.pc \in {"idle", "returned", "threw"}
    /\ started < MaxRequests
    /\ started' = started + 1
    /\ req' = [IdleReq EXCEPT !.pc = "context",
                              !.agent = "running",
                              !.userId = userId,
                              !.userMessage = userMessage,
                              !.histBefore = StoredHistory(userId),
                              !.fileBefore = files[userId]]
    /\ UNCHANGED <<storeVars, botVars, api, transport, OutsideBot>>

SpecAgent ==
    /\ Init
    /\ [][ \/ \E userId \in Users,
                 userMessage \in {Msg.hotel, Msg.shop, Msg.blank, Msg.padded, Msg.food, Msg.hi} :
                  RunAgentPrompt(userMessage, userId)
           \/ LoadConversationContext
           \/ LoadUserProfile
           \/ DetermineTools(Explored.agent)
           \/ ExecuteNextTool(Explored.agent)
           \/ GenerateFinalResponse(Explored.agent)
           \/ SaveConversation ]_vars

-----------------------------------------------------------------------------
(* The orchestrator's claims, under SpecAgent *)

\* C6: whenever the search entry of the result map carries an error, the
\* synthesized response has confidence 0.3, its message is the entry's
\* fallbackMessage followed by the menu text, and no completion call was
\* made for synthesis; the response runAgentPrompt then returns carries
\* the same message and confidence.
C6_DegradedOnSearchError ==
    \A i \in { n \in 1..Len(req.toolResults) :
          /\ req.toolResults[n][1] = Tool.search
          /\ "error" \in DOMAIN req.toolResults[n][2] } :
        /\ req.finalResponse # NoResponse =>
              /\ req.finalResponse.confidence = 30
              /\ req.finalResponse.message = req.toolResults[i][2].fallbackMessage \o Reply.menu
              /\ req.synthesis = "none"
              /\ \A k \in 1..Len(req.groqLog) : req.groqLog[k] # "synth"
        /\ req.agent = "returned" =>
              /\ req.response.confidence = 30
              /\ req.response.message = Reply.fallback \o Reply.menu

C6_Witness ==
    /\ req.agent = "returned"
    /\ \E n \in 1..Len(req.toolResults) :
          /\ req.toolResults[n][1] = Tool.search
          /\ "error" \in DOMAIN req.toolResults[n][2]
    /\ req.tavilyLog = <<"fail">>
    /\ req.response.confidence = 30

\* C8: when tool selection includes search, the Search Service returns
\* results and the synthesis call succeeds, the response runAgentPrompt
\* returns has confidence 0.85 and toolsUsed containing "search", and the
\* stored history is the history from before the message plus exactly one
\* entry, with the message text unchanged (the oldest entry dropped when
\* that makes 51); runAgentPrompt fails to return in this scenario only
\* when a Profile Store call rejected.
C8_SearchScenario ==
    LET searchSucceeded ==
            /\ \E i \in 1..Len(req.requiredTools) : req.requiredTools[i] = JS("string", Tool.search)
            /\ req.tavilyLog # <<>>
            /\ \A k \in 1..Len(req.tavilyLog) : req.tavilyLog[k] = "ok"
            /\ req.synthesis = "ok"
        LastOf(seq, n) ==
            IF Len(seq) > n THEN SubSeq(seq, Len(seq) - n + 1, Len(seq)) ELSE seq
    IN  searchSucceeded =>
            /\ req.agent = "returned" =>
                  /\ req.response.confidence = 85
                  /\ \E i \in 1..Len(req.response.toolsUsed) :
                         req.response.toolsUsed[i] = JS("string", Tool.search)
                  /\ Texts(StoredHistory(req.userId)) =
                         LastOf(Append(Texts(req.histBefore),
                                       [userMessage |-> req.userMessage,
                                        botResponse |-> req.response.message]),
                                HistoryLimit)
            /\ req.agent = "threw" => req.ioFailed

\* A hotel message of a user with a full history went through a search the
\* Search Service answered and a synthesis the Completion Service answered,
\* and is stored as the newest of 50 entries.
C8_Witness ==
    /\ \E i \in 1..Len(req.requiredTools) : req.requiredTools[i] = JS("string", Tool.search)
    /\ req.tavilyLog # <<>>
    /\ \A k \in 1..Len(req.tavilyLog) : req.tavilyLog[k] = "ok"
    /\ req.synthesis = "ok"
    /\ req.agent = "returned"
    /\ req.userId = "254700"
    /\ req.userMessage = Msg.hotel
    /\ Len(req.histBefore) = HistoryLimit
    /\ StoredHistory(req.userId)[HistoryLimit].userMessage = Msg.hotel
    /\ req.response.confidence = 85

-----------------------------------------------------------------------------
(* The adapter's claims, under Spec *)

C10_NoTransportSendWhileNotReady ==
    [][~isReady => transport' = transport]_vars

C10_Witness ==
    /\ api.op = "broadcast"
    /\ api.to # <<>>
    /\ ~api.readyAtCall
    /\ api.outcome = "rejected"
    /\ transport = <<>>

\* C11: no group-chat message, no self-originated message and no empty
\* (whitespace-only included) or media-only message causes a call of
\* runAgentPrompt: what is forwarded is text that is not blank, of a
\* message of a private chat that the bot did not send itself.
C11_OnlyNonBlankPrivateText ==
    req.agent # "none" =>
        /\ ~req.event.fromMe
        /\ req.event.remoteJid.server = "s.whatsapp.net"
        /\ req.event.content.kind \in
               {"conversation", "extendedTextMessage", "imageMessage", "videoMessage"}
        /\ Len(Trim(req.event.content.text)) > 0
        /\ req.userMessage = req.event.content.text

-----------------------------------------------------------------------------
(* The orchestrator's claims on failures, under SpecAgent *)

\* C12: when the synthesis completion call fails, the response returned
\* for the request is the fixed apology with confidence 0.1 and an empty
\* tools-used list, and no completion call follows the failed one.
C12_ApologyOnSynthesisFailure ==
    (req.synthesis = "failed" /\ req.agent = "returned") =>
        /\ req.response.message = Reply.apology
        /\ req.response.confidence = 10
        /\ req.response.toolsUsed = <<>>
        /\ req.groqLog[Len(req.groqLog)] = "synth"

\* C13: no failure of a Completion Service or Search Service call makes
\* runAgentPrompt throw: a failed selection call gives the default tool
\* list, a failed extraction call the heuristic parameters, a failed search
\* request the error placeholder, a failed synthesis call the apology; and
\* runAgentPrompt throws only when a Profile Store call rejected.
C13_RemoteFailuresBecomeFallbacks ==
    /\ req.agent = "threw" => req.ioFailed
    /\ "select" \in req.failed => req.requiredTools = DefaultTools
    /\ "extract" \in req.failed => req.params = FallbackParams(req.userMessage)
    /\ "search" \in req.failed =>
           LET searchResult == Lookup(req.toolResults, Tool.search)
           IN  /\ searchResult.t = "error"
               /\ Len(searchResult.error) > 0
               /\ searchResult.fallbackMessage = Reply.fallback
    /\ ("synth" \in req.failed /\ req.pc \in {"save", "returned"}) =>
           req.finalResponse.message = Reply.apology

\* The selection call, the extraction call and the search request of one
\* message all failed, no Profile Store call did, and runAgentPrompt
\* returned the degraded reply.
C13_Witness ==
    /\ req.agent = "returned"
    /\ req.failed = {"select", "extract", "search"}
    /\ ~req.ioFailed
    /\ req.requiredTools = DefaultTools
    /\ req.response.confidence = 30

\* C15 as claimed: whatever the message and the selected tool list, at most
\* three completion calls are made for a message, and exactly one on the
\* degraded path.
C15_Claimed_AtMostThreeCalls ==
    /\ Len(req.groqLog) <= 3
    /\ (req.pc \in {"save", "returned"} /\ req.finalResponse.confidence = 30) =>
           Len(req.groqLog) = 1

\* C15 amended: a message costs one selection call, one extraction call
\* per occurrence of "search" in the selected list (none when the message
\* is blank) and at most one synthesis call, hence at most three calls
\* when "search" is selected at most once; on the degraded path there is
\* no synthesis call, so the calls are the selection call and the
\* extraction calls: two for a non-blank message with one search, one only
\* for a blank message.
C15_CompletionCallsPerMessage ==
    LET Count(purpose) ==
            Cardinality({k \in 1..Len(req.groqLog) : req.groqLog[k] = purpose})
        searches ==
            Cardinality({i \in 1..Len(req.requiredTools) :
                             req.requiredTools[i] = JS("string", Tool.search)})
        finished == req.pc \in {"save", "returned"}
        degraded ==
            LET searchResult == Lookup(req.toolResults, Tool.search)
            IN  searchResult.t = "error" /\ Len(searchResult.error) > 0
    IN  /\ Count("select") = (IF req.pc \in {"idle", "context", "profile", "select"}
                              \/ req.groqLog = <<>> THEN 0 ELSE 1)
        /\ Count("extract") <= searches
        /\ Count("synth") <= 1
        /\ Len(req.groqLog) = Count("select") + Count("extract") + Count("synth")
        /\ searches <= 1 => Len(req.groqLog) <= 3
        /\ finished =>
               /\ Count("extract") = (IF IsBlankMessage(req.userMessage) THEN 0 ELSE searches)
               /\ Count("synth") = (IF degraded THEN 0 ELSE 1)
               /\ degraded => req.finalResponse.confidence = 30

\* A hotel message went down the degraded path after one selection call
\* and one extraction call.
C15_Witness ==
    /\ req.agent = "returned"
    /\ req.userMessage = Msg.hotel
    /\ req.response.confidence = 30
    /\ req.groqLog = <<"select", "extract">>

\* C16: whenever runAgentPrompt returns a response (after a synthesis, on
\* the degraded path or with the apology of a failed synthesis), the stored
\* history is the history from before the message plus exactly one entry,
\* whose userMessage is the message and whose botResponse is the message of
\* the returned response (the oldest entry dropped beyond 50).
C16_OneEntryPerReturnedResponse ==
    req.agent = "returned" =>
        LET before == Texts(req.histBefore)
            entry  == [userMessage |-> req.userMessage, botResponse |-> req.response.message]
            stored == Texts(StoredHistory(req.userId))
        IN  /\ Len(stored) = (IF Len(before) = HistoryLimit THEN HistoryLimit ELSE Len(before) + 1)
            /\ stored[Len(stored)] = entry
            /\ \A i \in 1..(Len(stored) - 1) : stored[i] = before[Len(before) - (Len(stored) - 1) + i]

\* The apology of a failed synthesis was returned to a user with two
\* earlier turns and is stored as the third.
C16_Witness ==
    /\ req.agent = "returned"
    /\ req.synthesis = "failed"
    /\ Len(req.histBefore) = 2
    /\ Len(StoredHistory(req.userId)) = 3
    /\ StoredHistory(req.userId)[3].botResponse = Reply.apology

\* C17: a name of the selected list that the registry does not hold is
\* skipped: the result map gets no entry for it, the request does not fail
\* because of it, and the tools after it in the list are still executed.
C17_UnknownToolSkipped ==
    /\ \A i \in 1..Len(req.toolResults) : req.toolResults[i][1] \in {Tool.search, Tool.profile}
    /\ (req.pc \in {"save", "returned"}) =>
           \A i \in 1..Len(req.requiredTools) :
               req.requiredTools[i] \in {JS("string", Tool.search), JS("string", Tool.profile)} =>
                   \E k \in 1..Len(req.toolResults) :
                       req.toolResults[k][1] = req.requiredTools[i].v
    /\ req.agent = "threw" => req.ioFailed

\* The list ["weather", "search"] was selected: the search after the
\* unknown name ran, and the response was returned.
C17_Witness ==
    /\ req.agent = "returned"
    /\ req.requiredTools = <<JS("string", Txt.weather), JS("string", Tool.search)>>
    /\ MapKeys(req.toolResults) = <<Tool.search>>
    /\ ~req.ioFailed

\* C18: a tool executor that raises is caught and the tools after it still
\* run; a failed search leaves {error, fallbackMessage}, a failed profile
\* tool {error} only, and a failed profile tool alone does not lead to the
\* degraded reply: the response is made by one synthesis call.
C18_ToolFailureCaught ==
    LET Entry(name) == Lookup(req.toolResults, name)
        IsError(name) == Entry(name).t = "error"
        Listed(name) == \E i \in 1..Len(req.requiredTools) :
                            req.requiredTools[i] = JS("string", name)
        finished == req.pc \in {"save", "returned"}
    IN  /\ IsError(Tool.search) => DOMAIN Entry(Tool.search) = {"t", "error", "fallbackMessage"}
        /\ IsError(Tool.profile) => DOMAIN Entry(Tool.profile) = {"t", "error"}
        /\ (finished /\ (IsError(Tool.search) \/ IsError(Tool.profile))) =>
               /\ Listed(Tool.search) => Entry(Tool.search).t # "undefined"
               /\ Listed(Tool.profile) => Entry(Tool.profile).t # "undefined"
        /\ (finished /\ IsError(Tool.profile) /\ ~IsError(Tool.search)) =>
               /\ req.synthesis # "none"
               /\ Cardinality({k \in 1..Len(req.groqLog) : req.groqLog[k] = "synth"}) = 1
               /\ req.finalResponse.confidence \in {85, 10}

\* The profile tool failed, the search after it ran and succeeded, and the
\* response came from the synthesis call.
C18_Witness ==
    /\ req.agent = "returned"
    /\ req.requiredTools = DefaultTools
    /\ Lookup(req.toolResults, Tool.profile) = ToolError(Err.readProfile)
    /\ Lookup(req.toolResults, Tool.search).t = "response"
    /\ req.response.confidence = 85

-----------------------------------------------------------------------------
(* The Profile Store as runAgentPrompt uses it, under SpecAgent *)

\* C21: the first getProfile of an id without a file returns the default
\* record (that id, no preferences, no favorites, no history) and stores
\* it; every later getProfile of the request returns the stored record,
\* and a known id gets the record its file held, never a fresh one.
C21_LazyDefaultProfile ==
    LET log == req.profileLog
        IsDefault(profile) ==
            /\ profile.userId = req.userId
            /\ profile.preferences = <<>>
            /\ profile.favorites = <<>>
            /\ profile.conversationHistory = <<>>
    IN  Len(log) >= 1 =>
            /\ req.fileBefore = NoFile => IsDefault(log[1])
            /\ req.fileBefore.kind = "json" => log[1] = ParseProfile(req.fileBefore.data)
            /\ \A k \in 2..Len(log) : log[k] = log[1]
            /\ req.pc \in {"profile", "select", "tools", "save"} =>
                   files[req.userId] = JsonFile(Stringify(log[Len(log)]))

\* The first message of 254711: the context load created the record, and
\* the getProfile after it returned that record.
C21_Witness ==
    /\ req.userId = "254711"
    /\ req.fileBefore = NoFile
    /\ req.pc = "select"
    /\ Len(req.profileLog) = 2
    /\ req.profileLog[2] = NewProfile("254711", 0)
    /\ files["254711"] = JsonFile(Stringify(NewProfile("254711", 0)))

-----------------------------------------------------------------------------
(* The record of a user, under SpecProfile *)

\* C22: the record stored under an id carries that id, whatever Profile
\* Store calls have run, an updateProfile whose updates name another
\* userId included: the record it saves keeps the id it was called with.
C22_UserIdImmutable ==
    /\ \A u \in Users : files[u].kind = "json" => files[u].data.userId = u
    /\ \A p \in Procs :
           proc[p].pc \in {"createOpen", "createWrite", "saveOpen", "saveWrite"} =>
               proc[p].buf.userId = proc[p].op.userId

\* updateProfile('254700', {name, userId: '254711'}) completed: the name
\* is stored, under 254700 and with userId 254700, and 254711 has no file.
C22_Witness ==
    \E p \in Procs :
        /\ proc[p].pc = "idle"
        /\ "wrote" \in DOMAIN proc[p]
        /\ proc[p].op.name = "updateProfile"
        /\ "userId" \in DOMAIN proc[p].op.updates
        /\ files["254700"] = JsonFile(Stringify(proc[p].wrote))
        /\ files["254700"].data.name = Txt.Nairobi
        /\ files["254700"].data.userId = "254700"
        /\ files["254711"] = NoFile

\* C24 as claimed: a Profile Store call that fails during a request, at
\* whichever step, makes runAgentPrompt throw: no response is returned.
C24_Claimed_EveryStoreFailureFatal ==
    req.ioFailed => req.agent # "returned"

\* C24 amended: a Profile Store failure in the context load, in the
\* getProfile after it, in the getUserSummary of the synthesis prompt or in
\* addConversationEntry makes runAgentPrompt throw without a response; a
\* failure inside the profile tool is caught by executeToolsInSequence,
\* stored as {error}, and the request goes on.
C24_StoreFailureFatalOutsideTools ==
    /\ req.agent = "threw" => (req.ioFailed /\ req.response = NoResponse)
    /\ (req.ioFailed /\ req.agent \in {"running", "returned"}) =>
           Lookup(req.toolResults, Tool.profile) = ToolError(Err.readProfile)

\* The profile tool and the search both succeeded, and the read of the
\* synthesis prompt failed: the request threw.
C24_Witness ==
    /\ req.agent = "threw"
    /\ Len(req.profileLog) = 3
    /\ Lookup(req.toolResults, Tool.profile).t = "string"
    /\ Lookup(req.toolResults, Tool.search).t = "response"
    /\ req.groqLog = <<"select", "extract">>

\* C25: whenever runAgentPrompt throws, the profile file of the user is
\* what it was when the message arrived.
C25_FailsAtomically ==
    req.agent = "threw" => files[req.userId] = req.fileBefore

-----------------------------------------------------------------------------
(* The order of the tool loop, under SpecAgent *)

\* C26: the executors run one after the other in the order of the
\* selected list: after i names of the list have been handled, the
\* executors called are those of the registered names among them, in list
\* order, each with its entry in the result map in that order; synthesis
\* starts only when the whole list has been handled.
C26_ToolsInListOrder ==
    LET handled    == SubSeq(req.requiredTools, 1, req.toolIdx - 1)
        registered == SelectSeq(handled, HasTool)
        names      == [i \in 1..Len(registered) |-> registered[i].v]
        FirstOccurrences(s) ==
            SelectSeq([i \in 1..Len(s) |-> <<s[i], \A j \in 1..(i - 1) : s[j] # s[i]>>],
                      LAMBDA e : e[2])
        keysInOrder == [i \in 1..Len(FirstOccurrences(names)) |->
                            FirstOccurrences(names)[i][1]]
    IN  /\ req.toolIdx <= Len(req.requiredTools) + 1
        /\ req.execLog = names
        /\ MapKeys(req.toolResults) = keysInOrder
        /\ (req.pc \in {"save", "returned"} \/ req.synthesis # "none") =>
               req.toolIdx = Len(req.requiredTools) + 1
        /\ \A k \in 1..Len(req.groqLog) :
               req.groqLog[k] = "synth" =>
                   (k = Len(req.groqLog) /\ req.toolIdx = Len(req.requiredTools) + 1)

\* The list ["search", "profile"] was selected: the search ran first, the
\* profile tool second, and the response was synthesized from both.
C26_Witness ==
    /\ req.agent = "returned"
    /\ req.requiredTools = <<JS("string", Tool.search), JS("string", Tool.profile)>>
    /\ req.execLog = <<Tool.search, Tool.profile>>
    /\ MapKeys(req.toolResults) = <<Tool.search, Tool.profile>>
    /\ req.groqLog = <<"select", "extract", "synth">>

\* C27 as claimed: in every request that executes both the profile tool
\* and the search tool, the profile tool has completed before the search
\* tool begins.
C27_Claimed_ProfileBeforeSearch ==
    \A i, j \in 1..Len(req.execLog) :
        (req.execLog[i] = Tool.profile /\ req.execLog[j] = Tool.search) => i < j

\* C27 amended: the profile tool runs before the search tool exactly when
\* "profile" stands before "search" in the selected list, which the code
\* executes as returned; the list used when the selection call fails is
\* ["profile", "search"], so there the profile tool runs first.
C27_ProfileBeforeSearchAsListed ==
    LET list == req.requiredTools
        Before(s, x, y) == \E a, b \in 1..Len(s) : a < b /\ s[a] = x /\ s[b] = y
    IN  /\ Before(req.execLog, Tool.profile, Tool.search) =>
               Before(list, JS("string", Tool.profile), JS("string", Tool.search))
        /\ Before(req.execLog, Tool.search, Tool.profile) =>
               Before(list, JS("string", Tool.search), JS("string", Tool.profile))
        /\ ("select" \in req.failed /\ req.pc \in {"tools", "save", "returned"}) =>
               /\ list = <<JS("string", Tool.profile), JS("string", Tool.search)>>
               /\ \E n \in 0..2 : req.execLog = SubSeq(<<Tool.profile, Tool.search>>, 1, n)

\* The selection call failed, and the profile tool and then the search
\* tool ran on the default list.
C27_Witness ==
    /\ req.agent = "returned"
    /\ "select" \in req.failed
    /\ req.execLog = <<Tool.profile, Tool.search>>
    /\ Lookup(req.toolResults, Tool.profile).t = "string"
    /\ Lookup(req.toolResults, Tool.search).t = "response"

-----------------------------------------------------------------------------
(* Remote calls per message, under SpecAgent *)

\* C28 as claimed: whatever list was selected, at most one Search Service
\* request is made for a message, and no request follows a failed one.
C28_Claimed_AtMostOneSearch ==
    /\ Len(req.tavilyLog) <= 1
    /\ \A k \in 1..Len(req.tavilyLog) : req.tavilyLog[k] = "fail" => k = Len(req.tavilyLog)

\* C28 amended: each execution of the search tool sends at most one
\* Search Service request (none when its parameters are refused) and does
\* not send it again when it fails, so a list naming "search" once costs
\* at most one request; a list naming it n times costs up to n, and the
\* later ones are sent whether or not an earlier one failed.
C28_OneSearchPerListedSearch ==
    LET executions ==
            Cardinality({i \in 1..Len(req.execLog) : req.execLog[i] = Tool.search})
        listed ==
            Cardinality({i \in 1..Len(req.requiredTools) :
                             req.requiredTools[i] = JS("string", Tool.search)})
    IN  /\ Len(req.tavilyLog) <= executions
        /\ executions <= listed
        /\ listed <= 1 => Len(req.tavilyLog) <= 1
        /\ "search" \in req.failed =>
               (req.tavilyLog # <<>> /\ req.tavilyLog[Len(req.tavilyLog)] = "fail")

\* One search was listed, its request failed, and the degraded reply was
\* returned after that single request.
C28_Witness ==
    /\ req.agent = "returned"
    /\ req.requiredTools = <<JS("string", Tool.search)>>
    /\ req.tavilyLog = <<"fail">>
    /\ req.failed = {"search"}
    /\ req.response.confidence = 30

-----------------------------------------------------------------------------
(* The update action of the profile tool, which is                        *)
(* updateProfile(context.userId, updates), under SpecProfile              *)

\* C29: the record an update is about to save keeps, from the record that
\* was read, every top-level field the update does not name (updatedAt
\* aside) and every preference key the update does not name.
C29_UpdateMergesPreferences ==
    \A p \in Procs :
        (proc[p].pc \in {"saveOpen", "saveWrite"} /\ proc[p].op.name = "updateProfile") =>
            LET updates == proc[p].op.updates
                before  == proc[p].seen
                after   == proc[p].buf
                named   == IF "preferences" \in DOMAIN updates
                           THEN DOMAIN updates.preferences ELSE {}
            IN  /\ \A f \in DOMAIN before \ (DOMAIN updates \cup {"updatedAt", "preferences"}) :
                       f \in DOMAIN after /\ after[f] = before[f]
                /\ \A k \in DOMAIN before.preferences \ named :
                       /\ k \in DOMAIN after.preferences
                       /\ after.preferences[k] = before.preferences[k]

-----------------------------------------------------------------------------
(* The confidence of a returned response, under SpecAgent (in hundredths) *)

\* C30: a response runAgentPrompt returns has confidence 0.85, 0.3 or
\* 0.1: 0.85 exactly when the synthesis call succeeded, 0.3 exactly when
\* the search entry carried an error and no synthesis call was made, 0.1
\* exactly when the synthesis call failed; never the default 0.8.
C30_ConfidenceByPath ==
    req.agent = "returned" =>
        LET confidence == req.response.confidence
            searchResult == Lookup(req.toolResults, Tool.search)
            degraded == /\ searchResult.t = "error"
                        /\ Len(searchResult.error) > 0
                        /\ req.synthesis = "none"
        IN  /\ confidence \in {85, 30, 10}
            /\ confidence # 80
            /\ confidence = 85 <=> req.synthesis = "ok"
            /\ confidence = 30 <=> degraded
            /\ confidence = 10 <=> req.synthesis = "failed"
            /\ confidence = req.finalResponse.confidence

\* The synthesis call of a request that used the profile tool alone
\* failed: the apology was returned with confidence 0.1.
C30_Witness ==
    /\ req.agent = "returned"
    /\ req.requiredTools = <<JS("string", Tool.profile)>>
    /\ req.synthesis = "failed"
    /\ req.response.message = Reply.apology
    /\ req.response.confidence = 10

-----------------------------------------------------------------------------
(* The query of the extracted parameters, under SpecParams *)

\* C31: whatever the message and whatever the extraction completion
\* returns or however it fails, generateSearchParams returns an object
\* whose query is a string with a character that is not white space, so
\* executeSearchTool never throws 'Search query is required and cannot be
\* empty' on it.
C31_ExtractedQueryNeverBlank ==
    fnOut.fn = "params" =>
        LET query == Get(fnOut.params, Key.query)
        IN  /\ fnOut.params.t = "object"
            /\ query.t = "string"
            /\ \E i \in 1..Len(query.v) : query.v[i] \notin WhiteSpace
            /\ ~InvalidQuery(query)
            /\ LET request == ExecuteSearchTool(fnOut.params)
               IN  ~request.ok => request.error # Err.query

\* The completion returned {"query": "  "} for the padded message: the
\* parameters carry the trimmed message as query.
C31_Witness ==
    /\ fnOut.fn = "params"
    /\ fnIn.message = Msg.padded
    /\ fnIn.completion = GroqReturns(ExtText.blankQuery)
    /\ Get(fnOut.params, Key.query) = JS("string", Txt.paddedTrimmed)

-----------------------------------------------------------------------------
(* The heuristic extractor and the search tool, under SpecAgent *)

\* C35 as claimed: whenever the heuristic extractor was used in a request
\* and gave hotels, flights or restaurants, the request ends with the
\* degraded response, confidence 0.3.
C35_Claimed_HeuristicEndsDegraded ==
    (req.agent \in {"returned", "threw"} /\
     \E i \in DOMAIN req.searchLog : req.searchLog[i].deadEnd)
        => /\ req.agent = "returned"
           /\ req.response.confidence = 30

\* C35: a run of the search tool whose parameters came from the heuristic
\* extractor with category hotels, flights or restaurants throws before
\* fetch is called; with category products or general it calls fetch once.
\* The Search Service saw one request per run that called fetch.  When that
\* dead-end run is the last run of the search tool and runAgentPrompt
\* returns, no synthesis call was made and the confidence is 0.3.
C35_HeuristicFailsFast ==
    /\ \A i \in DOMAIN req.searchLog :
           LET entry == req.searchLog[i]
           IN  entry.heuristic =>
                   /\ entry.deadEnd => ~entry.sent
                   /\ entry.category \in {JS("string", Cat.products),
                                          JS("string", Cat.general)} => entry.sent
                   /\ entry.category \in {JS("string", Cat.hotels), JS("string", Cat.flights),
                          JS("string", Cat.restaurants), JS("string", Cat.products),
                          JS("string", Cat.general)}
    /\ Len(req.tavilyLog) = Cardinality({i \in DOMAIN req.searchLog : req.searchLog[i].sent})
    /\ (req.agent = "returned" /\ req.searchLog # <<>> /\
        req.searchLog[Len(req.searchLog)].deadEnd)
           => /\ req.synthesis = "none"
              /\ req.response.confidence = 30
              /\ Lookup(req.toolResults, Tool.search).t = "error"

\* The extraction call failed for 'Find me a hotel in Mombasa', the
\* heuristic gave hotels, no request was sent and the degraded response
\* was returned.
C35_Witness ==
    /\ req.agent = "returned"
    /\ req.userMessage = Msg.hotel
    /\ Len(req.searchLog) = 1
    /\ req.searchLog[1].deadEnd
    /\ req.searchLog[1].category = JS("string", Cat.hotels)
    /\ "extract" \in req.failed
    /\ req.tavilyLog = <<>>
    /\ req.response.confidence = 30

-----------------------------------------------------------------------------
(* What one inbound message sends, under Spec *)

\* C36: for an inbound message the handler delivers at most one text to
\* the sender, the agent's reply or the apology, never both.
C36_AtMostOneTextDelivered ==
    Len(req.delivered) <= 1

\* C39: once the handler has attempted to send the reply, and from then
\* on whatever becomes of the send (gateway not ready, rejected, followed
\* by the apology), the last entry of the sender's stored history is the
\* exchange: the message and the reply text, with the history one longer
\* than when the message arrived (or still at the limit).
C39_PersistedBeforeReply ==
    req.replyReady # "none" =>
        LET history == StoredHistory(req.userId)
            before  == Len(req.histBefore)
        IN  /\ history # <<>>
            /\ history[Len(history)].userMessage = req.userMessage
            /\ history[Len(history)].botResponse = req.response.message
            /\ Len(history) = IF before < HistoryLimit THEN before + 1 ELSE HistoryLimit

\* The reply could not be sent because the gateway was not ready, the
\* handler is done, nothing was delivered, and the entry is in the file.
C39_Witness ==
    /\ req.pc = "done"
    /\ req.replyReady = "notReady"
    /\ req.delivered = <<>>
    /\ StoredHistory(req.userId) # <<>>
    /\ StoredHistory(req.userId)[Len(StoredHistory(req.userId))].userMessage = req.userMessage

-----------------------------------------------------------------------------
(* SpecConn: the life of the Baileys sockets.  conn is here the record of *)
(* every socket made by makeWASocket with the state it last reported      *)
(* (their handlers are closures on the one BotService and are never       *)
(* removed), of this.sock, of the initializeBaileysClient calls scheduled *)
(* behind a delay(), of those awaiting useMultiFileAuthState, and of the  *)
(* calls started so far.  A socket that reported close reports nothing    *)
(* more.  The delays are not measured: any pending call can be the next.  *)

InitConn ==
    /\ InitStore
    /\ NoFn
    /\ ConstructedWith([ socks    |-> <<>>,
                         sock     |-> 0,           \* this.sock: index in socks, 0 when undefined
                         pending  |-> {[cause |-> "module", from |-> 0]},
                         running  |-> {},
                         inits    |-> <<>>,        \* initializeBaileysClient calls started
                         closes   |-> <<>>,        \* close events handled: socket, logged out?
                         foreign  |-> FALSE,       \* an event of a socket other than this.sock
                                                   \* changed isReady or qrCodeData
                         restarts |-> 0 ])

(* The close branch of the connection.update handler, up to its delay(). *)
OnClose(c, i, loggedOut) ==
    [c EXCEPT !.socks[i] = "closed",
              !.closes = Append(@, [sock |-> i, loggedOut |-> loggedOut]),
              !.pending = IF loggedOut THEN @ ELSE @ \cup {[cause |-> "reconnect", from |-> i]}]

(* onModuleInit, or a delay() of the close handler or of restartClient    *)
(* is over: initializeBaileysClient is called and awaits                  *)
(* useMultiFileAuthState.                                                 *)
InitializeBaileysClient(call) ==
    /\ call \in conn.pending
    /\ conn' = [conn EXCEPT !.pending = @ \ {call},
                            !.running = @ \cup {call},
                            !.inits = Append(@, call)]
    /\ UNCHANGED <<isReady, qrCodeData, storeVars, reqVars, OutsideBot>>

(* useMultiFileAuthState settles: makeWASocket and the handlers, or the   *)
(* catch block.                                                           *)
AuthStateSettles(call, ok) ==
    /\ call \in conn.running
    /\ conn' = IF ok
               THEN [conn EXCEPT !.running = @ \ {call},
                                 !.socks = Append(@, "connecting"),
                                 !.sock = Len(conn.socks) + 1]
               ELSE [conn EXCEPT !.running = @ \ {call}]
    /\ isReady' = IF ok THEN isReady ELSE FALSE
    /\ UNCHANGED <<qrCodeData, storeVars, reqVars, OutsideBot>>

(* connection.update of socket i carrying a QR code *)
SocketQr(i) ==
    /\ i \in DOMAIN conn.socks
    /\ conn.socks[i] = "connecting"
    /\ qrCodeData' = "qr"
    /\ conn' = [conn EXCEPT !.foreign = @ \/ (i # conn.sock /\ qrCodeData # "qr")]
    /\ UNCHANGED <<isReady, storeVars, reqVars, OutsideBot>>

(* connection.update of socket i with connection 'open' *)
SocketOpen(i) ==
    /\ i \in DOMAIN conn.socks
    /\ conn.socks[i] = "connecting"
    /\ isReady' = TRUE
    /\ qrCodeData' = "null"
    /\ conn' = [conn EXCEPT !.socks[i] = "open",
                            !.foreign = @ \/ (i # conn.sock /\ ~isReady)]
    /\ UNCHANGED <<storeVars, reqVars, OutsideBot>>

(* connection.update of socket i with connection 'close' *)
SocketClose(i, loggedOut) ==
    /\ i \in DOMAIN conn.socks
    /\ conn.socks[i] # "closed"
    /\ loggedOut \/ Len(conn.inits) + Cardinality(conn.pending) < MaxInits
    /\ isReady' = FALSE
    /\ conn' = [OnClose(conn, i, loggedOut) EXCEPT
                   !.foreign = @ \/ (i # conn.sock /\ isReady)]
    /\ UNCHANGED <<qrCodeData, storeVars, reqVars, OutsideBot>>

(* restartClient up to its delay(): this.sock.end() closes the socket,    *)
(* which may report the close to its handler (no error, so not a logged   *)
(* out close) before the flag and the QR code are reset.                  *)
RestartClient(emits) ==
    /\ conn.restarts < MaxRestarts
    /\ Len(conn.inits) + Cardinality(conn.pending) + 1 < MaxInits
    /\ LET ended == IF conn.sock \in DOMAIN conn.socks /\ conn.socks[conn.sock] # "closed"
                    THEN IF emits THEN OnClose(conn, conn.sock, FALSE)
                         ELSE [conn EXCEPT !.socks[conn.sock] = "closed"]
                    ELSE conn
       IN  conn' = [ended EXCEPT
                       !.restarts = @ + 1,
                       !.pending = @ \cup {[cause |-> "restart", from |-> conn.sock]}]
    /\ isReady' = FALSE
    /\ qrCodeData' = "null"
    /\ UNCHANGED <<storeVars, reqVars, OutsideBot>>

(* A timer that was set fires, and the process lives on: a scheduled      *)
(* initializeBaileysClient call is started in the end.                    *)
SpecConn ==
    /\ InitConn
    /\ [][ \/ \E call \in conn.pending : InitializeBaileysClient(call)
           \/ \E call \in conn.running, ok \in BOOLEAN : AuthStateSettles(call, ok)
           \/ \E i \in DOMAIN conn.socks : SocketQr(i)
           \/ \E i \in DOMAIN conn.socks : SocketOpen(i)
           \/ \E i \in DOMAIN conn.socks, loggedOut \in BOOLEAN : SocketClose(i, loggedOut)
           \/ \E emits \in BOOLEAN : RestartClient(emits) ]_vars
    /\ WF_vars(\E call \in conn.pending : InitializeBaileysClient(call))

-----------------------------------------------------------------------------
(* The socket life cycle, under SpecConn *)

\* C37: whatever the order of connection events and restartClient calls,
\* at most one initializeBaileysClient call is in progress, at most one
\* socket with registered handlers is live, and a restart whose
\* sock.end() was reported as a close leads to one new initialization, not
\* to one of restartClient and another of the close handler.
C37_OneInitializationOneLiveSocket ==
    /\ Cardinality(conn.running) <= 1
    /\ Cardinality({i \in DOMAIN conn.socks : conn.socks[i] # "closed"}) <= 1
    /\ \A i \in DOMAIN conn.inits, j \in DOMAIN conn.inits :
           ~ /\ conn.inits[i].cause = "restart"
             /\ conn.inits[j] = [cause |-> "reconnect", from |-> conn.inits[i].from]

\* C38: isReady is true only while this.sock, the socket made last, has
\* reported open and not close since; no event of another socket has
\* changed the flag or the QR code; and while the flag is true the stored
\* QR code is null.
C38_FlagFollowsCurrentSocket ==
    /\ isReady => (conn.sock \in DOMAIN conn.socks /\ conn.socks[conn.sock] = "open")
    /\ ~conn.foreign
    /\ isReady => qrCodeData = "null"

-----------------------------------------------------------------------------
(* SpecRetry: the whatsapp-web.js adapter, whose initializeWhatsAppClient *)
(* tries client.initialize() again on Railway.  conn is here the record   *)
(* of the RAILWAY environment, the attempt under way, what each attempt   *)
(* came to, every Client made with its state (their handlers are set up   *)
(* at creation), and whether the call rejected to onModuleInit.  A        *)
(* Client that was not destroyed can still report ready, also after the   *)
(* race of its attempt was lost to the timeout.                           *)

MaxRetriesAlways(isRailway) == 3

(* const maxRetries = isRailway ? 3 : 1 *)
MaxRetriesFor(isRailway) == IF isRailway THEN 3 ELSE 1

InitRetry ==
    /\ InitStore
    /\ NoFn
    /\ \E isRailway \in BOOLEAN :
           ConstructedWith([ isRailway  |-> isRailway,
                             pc         |-> "constructed",
                             attempt    |-> 0,
                             attempts   |-> <<>>,    \* outcome of each initialize() race
                             clients    |-> <<>>,    \* created / ready / disconnected / destroyed
                             rejected   |-> FALSE,   \* initializeWhatsAppClient threw to its caller
                             closed     |-> "none",  \* reason of the last 'disconnected'
                             atClose    |-> 0 ])     \* initialize() calls made before it

(* onModuleInit: initializeWhatsAppClient makes the Client, sets up its   *)
(* handlers and starts the first attempt.                                 *)
OnModuleInit ==
    /\ conn.pc = "constructed"
    /\ conn' = [conn EXCEPT !.pc = "initializing",
                            !.attempt = 1,
                            !.clients = <<"created">>]
    /\ UNCHANGED <<isReady, qrCodeData, storeVars, reqVars, OutsideBot>>

(* Promise.race([initPromise, timeoutPromise]) settles: return on         *)
(* success; else wait to retry, or after the last attempt throw lastError *)
(* into the outer catch.                                                  *)
RaceSettles(outcome) ==
    /\ conn.pc = "initializing"
    /\ conn' = [conn EXCEPT
                   !.attempts = Append(@, outcome),
                   !.pc = IF outcome = "resolved" THEN "done"
                          ELSE IF conn.attempt < MaxRetriesFor(conn.isRailway) THEN "waiting"
                          ELSE "done"]
    /\ isReady' = IF outcome # "resolved" /\ ~(conn.attempt < MaxRetriesFor(conn.isRailway))
                  THEN FALSE ELSE isReady
    /\ UNCHANGED <<qrCodeData, storeVars, reqVars, OutsideBot>>

(* The 10 seconds are over: whatsappClient.destroy() is called. *)
RetryDelayOver ==
    /\ conn.pc = "waiting"
    /\ conn' = [conn EXCEPT !.pc = "destroying"]
    /\ UNCHANGED <<isReady, qrCodeData, storeVars, reqVars, OutsideBot>>

(* destroy() settles (a rejection is logged, and may leave the browser    *)
(* running); a new Client is made with its handlers and the next attempt  *)
(* starts.                                                                *)
DestroySettles(destroyed) ==
    /\ conn.pc = "destroying"
    /\ conn' = [conn EXCEPT
                   !.pc = "initializing",
                   !.attempt = @ + 1,
                   !.clients = Append(IF destroyed
                                      THEN [@ EXCEPT ![Len(@)] = "destroyed"] ELSE @,
                                      "created")]
    /\ UNCHANGED <<isReady, qrCodeData, storeVars, reqVars, OutsideBot>>

(* 'ready' of Client i *)
ClientReady(i) ==
    /\ i \in DOMAIN conn.clients
    /\ conn.clients[i] = "created"
    /\ isReady' = TRUE
    /\ conn' = [conn EXCEPT !.clients[i] = "ready"]
    /\ UNCHANGED <<qrCodeData, storeVars, reqVars, OutsideBot>>

(* 'disconnected' of Client i: the flag goes down, and that is all *)
ClientDisconnected(i, reason) ==
    /\ i \in DOMAIN conn.clients
    /\ conn.clients[i] \in {"created", "ready"}
    /\ isReady' = FALSE
    /\ conn' = [conn EXCEPT !.clients[i] = "disconnected",
                            !.closed = reason,
                            !.atClose = Len(conn.clients)]
    /\ UNCHANGED <<qrCodeData, storeVars, reqVars, OutsideBot>>

(* Nest calls onModuleInit; the race settles because of its timeout; the  *)
(* 10 second timer fires; destroy() is taken to settle.                   *)
SpecRetry ==
    /\ InitRetry
    /\ [][ \/ OnModuleInit
           \/ \E outcome \in {"resolved", "rejected", "timeout"} : RaceSettles(outcome)
           \/ RetryDelayOver
           \/ \E destroyed \in BOOLEAN : DestroySettles(destroyed)
           \/ \E i \in DOMAIN conn.clients : ClientReady(i)
           \/ \E i \in DOMAIN conn.clients, reason \in {"LOGOUT", "NAVIGATION"} :
                  ClientDisconnected(i, reason) ]_vars
    /\ WF_vars(\/ OnModuleInit
               \/ \E outcome \in {"resolved", "rejected", "timeout"} : RaceSettles(outcome)
               \/ RetryDelayOver
               \/ \E destroyed \in BOOLEAN : DestroySettles(destroyed))

-----------------------------------------------------------------------------
(* Initialization with retries, under SpecRetry *)

C34_ReinitializesAfterClose ==
    /\ [][conn.closed' # conn.closed => ~isReady']_vars
    /\ (conn.closed = "NAVIGATION") ~> (Len(conn.clients) > conn.atClose)

-----------------------------------------------------------------------------
(* SpecAppend: two messages of user 254700 handled at the same time, as   *)
(* far as the Profile Store sees them: the getProfile of the context      *)
(* loading, whose result stays in the AgentContext, and much later the    *)
(* addConversationEntry of the same request.                              *)

EntryBaseSnapshot(snapshot, reread) == snapshot

(* addConversationEntry is handed the user id, not context.userProfile:   *)
(* it pushes onto what its own getProfile returns.                        *)
EntryBase(snapshot, reread) == reread

(* getConversationContext -> getProfile: fs.readFile completes *)
ContextRead(p) ==
    LET userId == "254700"
        cur    == files[userId]
        op     == [name |-> "request", userId |-> userId,
                   created |-> cur.kind = "ENOENT",   \* this request's getProfile made the file
                   stale   |-> FALSE,    \* the snapshot was out of date at append time
                   overlap |-> FALSE]    \* the append read inside the other append
    IN  /\ proc[p].pc = "idle"
        /\ calls[p] = 0
        /\ calls' = [calls EXCEPT ![p] = 1]
        /\ proc' = [proc EXCEPT ![p] =
              CASE cur.kind = "ENOENT" ->
                     [pc |-> "createOpen", op |-> op,
                      buf |-> SavedProfile(NewProfile(userId, clock), clock)]
                [] cur.kind = "unparsable" ->
                     [pc |-> "idle", op |-> op, threw |-> TRUE]
                [] cur.kind = "json" ->
                     [pc |-> "running", op |-> op, snapshot |-> ParseProfile(cur.data)]]
        /\ UNCHANGED <<files, clock, OutsideStore>>

(* createProfile's write completes: the default record is the snapshot *)
ContextCreated(p) ==
    /\ proc[p].pc = "createWrite"
    /\ \E out \in WriteOutcomes(files, proc[p].buf) :
           files' = [files EXCEPT ![proc[p].op.userId] = out]
    /\ proc' = [proc EXCEPT ![p] =
           [pc |-> "running", op |-> proc[p].op, snapshot |-> proc[p].buf]]
    /\ UNCHANGED <<clock, calls, OutsideStore>>

(* addConversationEntry -> getProfile: fs.readFile completes, the entry   *)
(* is pushed and saveProfile is called.                                   *)
AppendRead(p) ==
    LET op    == proc[p].op
        cur   == files[op.userId]
        other == CHOOSE q \in Procs : q # p
        base  == EntryBase(proc[p].snapshot, ParseProfile(cur.data))
    IN  /\ proc[p].pc = "running"
        /\ cur.kind # "ENOENT"
        /\ proc' = [proc EXCEPT ![p] =
              IF cur.kind = "unparsable"
              THEN [pc |-> "idle", op |-> op, threw |-> TRUE]
              ELSE [pc |-> "saveOpen",
                    op |-> [op EXCEPT
                               !.stale = proc[p].snapshot # ParseProfile(cur.data),
                               !.overlap = proc[other].pc \in {"saveOpen", "saveWrite"}],
                    seen |-> base,
                    buf |-> SavedProfile(PushEntry(base, <<p>>, Reply.answer, clock), clock)]]
        /\ UNCHANGED <<files, clock, calls, OutsideStore>>

SpecAppend ==
    /\ Init
    /\ [][ \/ \E p \in Procs : ContextRead(p)
           \/ \E p \in Procs : CreateOpen(p)
           \/ \E p \in Procs : ContextCreated(p)
           \/ \E p \in Procs : AppendRead(p)
           \/ \E p \in Procs : SaveOpen(p)
           \/ \E p \in Procs : SaveWrite(p) ]_vars

\* C40 as claimed: when the two appends have both been written and the
\* read-modify-write section of neither began inside that of the other,
\* the stored history holds both entries, however the rest of the two
\* requests went.
C40_Claimed_BothEntriesKept ==
    (\A p \in Procs : (proc[p].pc = "idle" /\ "wrote" \in DOMAIN proc[p]) /\ ~proc[p].op.overlap)
        => (\A p \in Procs :
               \E n \in DOMAIN StoredHistory("254700") :
                   Texts(StoredHistory("254700"))[n] =
                       [userMessage |-> <<p>>, botResponse |-> Reply.answer])

\* C40: the entry is pushed onto the record addConversationEntry reads
\* itself, not onto the snapshot of the context: when both appends have
\* been written without their read-modify-write sections overlapping, and
\* at most one of the two requests had to create the profile file, the
\* stored history holds both entries.
C40_BothEntriesKeptOnceFileExists ==
    (/\ \A p \in Procs : (proc[p].pc = "idle" /\ "wrote" \in DOMAIN proc[p]) /\ ~proc[p].op.overlap
     /\ \E p \in Procs : ~proc[p].op.created)
        => (\A p \in Procs :
               \E n \in DOMAIN StoredHistory("254700") :
                   Texts(StoredHistory("254700"))[n] =
                       [userMessage |-> <<p>>, botResponse |-> Reply.answer])

\* The file existed; both requests took their snapshot before either
\* appended, so the snapshot of the second to append lacked the first
\* entry; the appends did not overlap and both entries are stored.
C40_Witness ==
    /\ \A p \in Procs :
           (proc[p].pc = "idle" /\ "wrote" \in DOMAIN proc[p]) /\ ~proc[p].op.overlap /\ ~proc[p].op.created
    /\ \E p \in Procs : proc[p].op.stale
    /\ (\A p \in Procs :
               \E n \in DOMAIN StoredHistory("254700") :
                   Texts(StoredHistory("254700"))[n] =
                       [userMessage |-> <<p>>, botResponse |-> Reply.answer])

====
